---- MODULE Spec2Model ----
(***************************************************************************)
(* Verification model of the PlayRight matching backend.                   *)
(*                                                                         *)
(*   ai-engine   : EmbeddingModel singleton, CompatibilityModel,           *)
(*                 /calculate-compatibility and /bulk-analysis             *)
(*   api-server  : AIMatchingService (find_athlete_matches,                *)
(*                 find_brand_matches, _process_campaign_matches) and the  *)
(*                 calculate_ai_matches worker task                        *)
(*                                                                         *)
(* Numbers: the Python code computes in floats.  Here every score is a     *)
(* fixed-point integer.  Factor values are in hundredths of a point        *)
(* (100 points = 10000), weights are in hundredths (0.25 = 25), a cosine   *)
(* similarity is in hundredths (-100..100), so an overall score is in      *)
(* 1/10000 of a point (E4) until round(x, 1) turns it into tenths.         *)
(* Engagement rates are in tenths of a percent, follower counts in         *)
(* thousands, budgets and rates in dollars.                                *)
(***************************************************************************)
EXTENDS Integers, Sequences, FiniteSets, TLC

VARIABLES
    cls_instance,      \* EmbeddingModel._instance: 0 (None) or the object's number
    cls_model,         \* EmbeddingModel._model: 0 (None) or the model's number
    cls_model_loaded,  \* EmbeddingModel._model_loaded
    objects,           \* EmbeddingModel objects constructed so far
    builds,            \* SentenceTransformer objects constructed so far
    started,           \* the ai-engine's lifespan start-up has run
    returned,          \* the values get_instance() has returned
    engineResp,        \* the last response of the ai-engine
    engineCalls,       \* calls made to the ai-engine after start-up
    encoder,           \* which sentence encoder the deployment runs
    matchCall,         \* the last call of the api-server's matching service
    rows,              \* the store's "matches" collection, in creation order
    campaignTotal,     \* campaigns.total_matches, by campaign id
    notifications,     \* the queued send_notification tasks
    runs,              \* the campaign runs in progress, by run
    lastWrite,         \* by (campaign, athlete): the data of the latest write
    bulk,              \* a run_bulk_matching_analysis call: its list and position
    tasks,             \* the worker's task messages, by task
    fIn,               \* the inputs a factor calculation is applied to
    fOut,              \* the factors and overall scores both calculators gave
    agg                \* an aggregation: weight table, factors, similarity, score

engineVars == <<cls_instance, cls_model, cls_model_loaded, objects, builds,
                started, returned, engineResp, engineCalls>>
campaignVars == <<rows, campaignTotal, notifications, runs, lastWrite, bulk>>
workerVars == <<tasks>>
scoringVars == <<fIn, fOut, agg>>
vars == <<engineVars, encoder, matchCall, campaignVars, workerVars, scoringVars>>

-----------------------------------------------------------------------------
(* Bounds of the model *)

MaxEngineCalls == 3
MaxEngineList == 1
MaxEncoder == 2

-----------------------------------------------------------------------------
(* Python helpers *)

None == 0

\* dict.get(key, default)
Get(d, k, default) == IF k \in DOMAIN d THEN d[k] ELSE default

Min(a, b) == IF a <= b THEN a ELSE b
Max(a, b) == IF a >= b THEN a ELSE b

\* n points of a score, in the hundredths the factors are kept in
Points(n) == 100 * n

-----------------------------------------------------------------------------
(* Python strings are sequences of one-character strings, so that          *)
(* lower(), split(), strip() and the substring test "p in s" are computed. *)

UpperChars == <<"A", "B", "C", "D", "E", "F", "G", "H", "I", "J", "K", "L", "M", "N", "O", "P", "Q", "R", "S", "T", "U", "V", "W", "X", "Y", "Z">>
LowerChars == <<"a", "b", "c", "d", "e", "f", "g", "h", "i", "j", "k", "l", "m", "n", "o", "p", "q", "r", "s", "t", "u", "v", "w", "x", "y", "z">>

LowerChar(c) ==
    IF \E i \in 1..26 : UpperChars[i] = c
    THEN LowerChars[CHOOSE i \in 1..26 : UpperChars[i] = c]
    ELSE c

\* str.lower()
RECURSIVE Lower(_)
Lower(s) == IF s = <<>> THEN <<>> ELSE <<LowerChar(Head(s))>> \o Lower(Tail(s))

\* the substring test "p in s" on strings
Contains(s, p) ==
    \E i \in 0..(Len(s) - Len(p)) : SubSeq(s, i + 1, i + Len(p)) = p

\* the membership test "x in list"
ListContains(list, x) == \E i \in 1..Len(list) : list[i] = x

\* str.split(c): the parts between the occurrences of c ("" gives [""])
RECURSIVE SplitOn(_, _)
SplitOn(s, c) ==
    IF \A i \in 1..Len(s) : s[i] # c
    THEN <<s>>
    ELSE LET k == CHOOSE i \in 1..Len(s) :
                       s[i] = c /\ \A j \in 1..(i - 1) : s[j] # c
         IN <<SubSeq(s, 1, k - 1)>> \o SplitOn(SubSeq(s, k + 1, Len(s)), c)

NonEmptyStr(s) == s # <<>>

\* str.split(): the words between runs of blanks; no empty words
SplitWords(s) == SelectSeq(SplitOn(s, " "), NonEmptyStr)

\* str.strip()
RECURSIVE Strip(_)
Strip(s) ==
    IF s = <<>> THEN s
    ELSE IF Head(s) = " " THEN Strip(Tail(s))
    ELSE IF s[Len(s)] = " " THEN Strip(SubSeq(s, 1, Len(s) - 1))
    ELSE s

\* [f(x) for x in list] for f = lower
RECURSIVE LowerAll(_)
LowerAll(list) ==
    IF list = <<>> THEN <<>> ELSE <<Lower(Head(list))>> \o LowerAll(Tail(list))

\* a dict with string keys, as a set of <<key, value>> pairs
HasKey(dict, k) == \E e \in dict : e[1] = k
Lookup(dict, k) == (CHOOSE e \in dict : e[1] = k)[2]

RECURSIVE SumSeq(_)
SumSeq(s) == IF s = <<>> THEN 0 ELSE Head(s) + SumSeq(Tail(s))

\* round(x, 1) of x = n/d to the nearest unit, ties to the even unit
RoundHalfEven(n, d) ==
    LET q == n \div d
        r == n % d
    IN IF 2 * r < d THEN q
       ELSE IF 2 * r > d THEN q + 1
       ELSE IF q % 2 = 0 THEN q ELSE q + 1

(* the strings of the model *)
S_basketball == <<"b", "a", "s", "k", "e", "t", "b", "a", "l", "l">>
S_soccer == <<"s", "o", "c", "c", "e", "r">>
S_tennis == <<"t", "e", "n", "n", "i", "s">>
S_swimming == <<"s", "w", "i", "m", "m", "i", "n", "g">>
S_football == <<"f", "o", "o", "t", "b", "a", "l", "l">>
S_baseball == <<"b", "a", "s", "e", "b", "a", "l", "l">>
S_golf == <<"g", "o", "l", "f">>
S_track == <<"t", "r", "a", "c", "k">>
S_sports_apparel == <<"s", "p", "o", "r", "t", "s", "_", "a", "p", "p", "a", "r", "e", "l">>
S_fitness == <<"f", "i", "t", "n", "e", "s", "s">>
S_nutrition == <<"n", "u", "t", "r", "i", "t", "i", "o", "n">>
S_automotive == <<"a", "u", "t", "o", "m", "o", "t", "i", "v", "e">>
S_technology == <<"t", "e", "c", "h", "n", "o", "l", "o", "g", "y">>
S_luxury == <<"l", "u", "x", "u", "r", "y">>
S_financial == <<"f", "i", "n", "a", "n", "c", "i", "a", "l">>
S_food_beverage == <<"f", "o", "o", "d", "_", "b", "e", "v", "e", "r", "a", "g", "e">>
S_controversial == <<"c", "o", "n", "t", "r", "o", "v", "e", "r", "s", "i", "a", "l">>
S_scandal == <<"s", "c", "a", "n", "d", "a", "l">>
S_arrest == <<"a", "r", "r", "e", "s", "t">>
S_lawsuit == <<"l", "a", "w", "s", "u", "i", "t">>
S_drugs == <<"d", "r", "u", "g", "s">>
S_alcohol == <<"a", "l", "c", "o", "h", "o", "l">>
S_violence == <<"v", "i", "o", "l", "e", "n", "c", "e">>
S_inappropriate == <<"i", "n", "a", "p", "p", "r", "o", "p", "r", "i", "a", "t", "e">>
S_suspended == <<"s", "u", "s", "p", "e", "n", "d", "e", "d">>
S_banned == <<"b", "a", "n", "n", "e", "d">>
S_violation == <<"v", "i", "o", "l", "a", "t", "i", "o", "n">>
S_party == <<"p", "a", "r", "t", "y">>
S_wild == <<"w", "i", "l", "d">>
S_crazy == <<"c", "r", "a", "z", "y">>
S_rebel == <<"r", "e", "b", "e", "l">>
S_outspoken == <<"o", "u", "t", "s", "p", "o", "k", "e", "n">>
S_political == <<"p", "o", "l", "i", "t", "i", "c", "a", "l">>
S_AustinTX == <<"A", "u", "s", "t", "i", "n", ",", " ", "T", "X">>
S_HoustonTX == <<"H", "o", "u", "s", "t", "o", "n", ",", " ", "T", "X">>
S_MiamiFL == <<"M", "i", "a", "m", "i", ",", " ", "F", "L">>
S_California == <<"C", "a", "l", "i", "f", "o", "r", "n", "i", "a">>
S_BioClean == <<"g", "u", "a", "r", "d">>
S_BioArrest == <<"a", "r", "r", "e", "s", "t", " ", "r", "e", "c", "o", "r", "d">>
S_BioParty == <<"p", "a", "r", "t", "y", " ", "r", "e", "b", "e", "l">>
S_Golf_Cap == <<"G", "o", "l", "f">>
S_Name == <<"A", "l">>
S_School == <<"U", "T">>
S_under_18 == <<"u", "n", "d", "e", "r", "_", "1", "8">>
S_g18_24 == <<"1", "8", "_", "2", "4">>
S_g25_34 == <<"2", "5", "_", "3", "4">>
S_g35_44 == <<"3", "5", "_", "4", "4">>
S_g45_plus == <<"4", "5", "_", "p", "l", "u", "s">>
S_any == <<"a", "n", "y">>
S_male == <<"m", "a", "l", "e">>
S_female == <<"f", "e", "m", "a", "l", "e">>
S_low == <<"l", "o", "w">>
S_medium == <<"m", "e", "d", "i", "u", "m">>
S_high == <<"h", "i", "g", "h">>
S_low_medium == <<"l", "o", "w", "_", "m", "e", "d", "i", "u", "m">>
S_Medium_Cap == <<"M", "e", "d", "i", "u", "m">>

-----------------------------------------------------------------------------
(* The records the services are run on.  Strings are lists of characters;  *)
(* a key that a record lacks is a key the Python dict lacks.               *)

AthleteBasketball ==
    [id |-> "a1", first_name |-> S_Name, last_name |-> S_Name,
     sport |-> S_basketball, school |-> S_School, location |-> S_AustinTX,
     bio |-> S_BioClean, verified |-> TRUE, age |-> 20]

AthleteGolf ==
    [id |-> "a2", first_name |-> S_Name, sport |-> S_Golf_Cap,
     location |-> S_MiamiFL, bio |-> S_BioArrest, nil_eligible |-> FALSE]

AthleteTennis ==
    [id |-> "a3", first_name |-> S_Name, last_name |-> S_Name,
     sport |-> S_tennis, school |-> S_School, location |-> S_HoustonTX,
     bio |-> S_BioParty, age |-> 30]

\* a record without an id: athlete["id"] raises KeyError
AthleteNoId ==
    [first_name |-> S_Name, sport |-> S_basketball, location |-> S_AustinTX]

BrandApparel ==
    [id |-> "b1", company_name |-> S_Name, industry |-> S_sports_apparel,
     preferred_sports |-> <<S_basketball, S_tennis>>, location |-> S_AustinTX,
     budget_min |-> 100, budget_max |-> 2000, user |-> "u1",
     target_demographics |->
        [age_groups |-> [g18_24 |-> 60, g25_34 |-> 40],
         gender     |-> [male |-> 50, female |-> 50]]]

BrandLuxury ==
    [id |-> "b2", company_name |-> S_Name, industry |-> S_luxury,
     location |-> S_HoustonTX, user |-> "u2"]

BrandFitness ==
    [id |-> "b3", industry |-> S_fitness, preferred_sports |-> <<S_golf>>,
     location |-> S_California, budget_min |-> 10, budget_max |-> 50]

\* a record without an id: brand["id"] raises KeyError
BrandNoId ==
    [company_name |-> S_Name, industry |-> S_fitness, location |-> S_AustinTX]

AthleteCatalogue == <<AthleteBasketball, AthleteGolf, AthleteTennis, AthleteNoId>>
BrandCatalogue   == <<BrandApparel, BrandLuxury, BrandFitness, BrandNoId>>

\* api-server brands: target_demographics in the shape AIMatchingService reads
ApiBrandApparel ==
    [id |-> "b1", company_name |-> S_Name, industry |-> S_sports_apparel,
     preferred_sports |-> <<S_basketball, S_tennis>>, location |-> S_AustinTX,
     budget_min |-> 100, budget_max |-> 2000, user |-> "u1",
     target_demographics |->
        [age_group |-> S_g18_24, gender |-> S_any,
         interests |-> <<S_basketball, S_fitness>>, income_level |-> S_Medium_Cap]]

\* a brand whose "user" relation is empty
ApiBrandLuxury ==
    [id |-> "b2", company_name |-> S_Name, industry |-> S_luxury,
     location |-> S_HoustonTX, user |-> ""]

ApiBrandFitness ==
    [id |-> "b3", industry |-> S_fitness, preferred_sports |-> <<S_golf>>,
     location |-> S_California, budget_min |-> 10, budget_max |-> 50,
     target_demographics |-> [gender |-> S_female]]

ApiBrandNoId ==
    [company_name |-> S_Name, industry |-> S_fitness, location |-> S_AustinTX]

ApiBrandCatalogue == <<ApiBrandApparel, ApiBrandLuxury, ApiBrandFitness, ApiBrandNoId>>

\* the athlete_metrics rows, by athlete id (a3 has none)
MetricsByAthlete ==
    [a1 |-> <<[platform |-> "instagram", followers |-> 20, engagement_rate |-> 85,
               audience_demographics |->
                  [age_groups |-> [g18_24 |-> 70, g25_34 |-> 30],
                   gender     |-> [male |-> 60, female |-> 40]]],
              [platform |-> "tiktok", followers |-> 5, engagement_rate |-> 45]>>,
     a2 |-> <<[platform |-> "twitter", followers |-> 600, engagement_rate |-> 8]>>]

\* the text a profile is rendered to decides its embedding; a profile is
\* identified by its place in its catalogue
TextKey(catalogue, d) == CHOOSE i \in 1..Len(catalogue) : catalogue[i] = d

\* cosine similarities (hundredths) an encoder can give
SimValues == <<-50, 40, 70, 100>>

\* calculate_similarity(athlete_embedding, brand_embedding) under encoder
\* enc: a fixed function of the two texts
Similarity(enc, athlete_key, brand_key) ==
    SimValues[((enc + athlete_key + 2 * brand_key) % Len(SimValues)) + 1]

\* all lists of length at most n over the entries of a catalogue
ListsUpTo(catalogue, n) ==
    UNION { [1..k -> {catalogue[i] : i \in 1..Len(catalogue)}] : k \in 0..n }

-----------------------------------------------------------------------------
(* ai-engine: CompatibilityModel (models/compatibility_model.py)           *)
(* Every factor is returned in hundredths of a point.                      *)

sport_compatibility ==
    { <<S_basketball, <<S_basketball, S_sports_apparel, S_fitness, S_nutrition>>>>,
      <<S_soccer,     <<S_soccer, S_football, S_sports_apparel, S_fitness>>>>,
      <<S_tennis,     <<S_tennis, S_sports_apparel, S_fitness, S_luxury>>>>,
      <<S_swimming,   <<S_swimming, S_fitness, S_nutrition, S_sports_apparel>>>>,
      <<S_football,   <<S_football, S_sports_apparel, S_fitness, S_automotive>>>>,
      <<S_baseball,   <<S_baseball, S_sports_apparel, S_food_beverage>>>>,
      <<S_golf,       <<S_golf, S_luxury, S_financial, S_automotive>>>>,
      <<S_track,      <<S_track, S_sports_apparel, S_fitness, S_nutrition>>>> }

industry_sport_affinity ==
    { <<S_sports_apparel, { <<S_basketball, 100>>, <<S_soccer, 95>>, <<S_tennis, 90>>,
                            <<S_swimming, 85>>, <<S_football, 100>> }>>,
      <<S_fitness,        { <<S_basketball, 85>>, <<S_soccer, 80>>, <<S_tennis, 90>>,
                            <<S_swimming, 100>>, <<S_track, 95>> }>>,
      <<S_nutrition,      { <<S_basketball, 70>>, <<S_soccer, 75>>, <<S_swimming, 90>>,
                            <<S_track, 85>>, <<S_football, 80>> }>>,
      <<S_automotive,     { <<S_football, 85>>, <<S_basketball, 70>>, <<S_golf, 80>>,
                            <<S_baseball, 60>> }>>,
      <<S_technology,     { <<S_basketball, 75>>, <<S_soccer, 70>>, <<S_tennis, 65>>,
                            <<S_swimming, 60>> }>> }

\* CompatibilityModel._calculate_sport_alignment
CM_sport_alignment(athlete_data, brand_data) ==
    LET athlete_sport    == Lower(Get(athlete_data, "sport", <<>>))
        brand_industry   == Lower(Get(brand_data, "industry", <<>>))
        preferred_sports == Get(brand_data, "preferred_sports", <<>>)
    IN IF ListContains(LowerAll(preferred_sports), athlete_sport)
       THEN 10000
       ELSE IF HasKey(industry_sport_affinity, brand_industry)
       THEN LET sport_scores == Lookup(industry_sport_affinity, brand_industry)
            IN IF HasKey(sport_scores, athlete_sport)
               THEN 100 * Lookup(sport_scores, athlete_sport)
               ELSE 4000
       ELSE IF /\ HasKey(sport_compatibility, athlete_sport)
               /\ ListContains(Lookup(sport_compatibility, athlete_sport), brand_industry)
       THEN 7500
       ELSE 3000

\* sum(min(athlete_pct, brand.get(group, 0))) over the athlete's groups
Overlap(athlete_groups, brand_groups) ==
    LET RECURSIVE Acc(_)
        Acc(S) == IF S = {} THEN 0
                  ELSE LET g == CHOOSE x \in S : TRUE
                       IN Min(athlete_groups[g], Get(brand_groups, g, 0)) + Acc(S \ {g})
    IN Acc(DOMAIN athlete_groups)

\* the match_scores list of _calculate_audience_match, in points
RECURSIVE AudienceScores(_, _)
AudienceScores(athlete_metrics, brand_target) ==
    IF athlete_metrics = <<>> THEN <<>>
    ELSE LET metric        == Head(athlete_metrics)
             audience_demo == Get(metric, "audience_demographics", <<>>)
             a_age    == Get(audience_demo, "age_groups", <<>>)
             b_age    == Get(brand_target, "age_groups", <<>>)
             a_gender == Get(audience_demo, "gender", <<>>)
             b_gender == Get(brand_target, "gender", <<>>)
             age    == IF a_age # <<>> /\ b_age # <<>>
                       THEN <<Overlap(a_age, b_age)>> ELSE <<>>
             gender == IF a_gender # <<>> /\ b_gender # <<>>
                       THEN <<Overlap(a_gender, b_gender)>> ELSE <<>>
             here   == IF audience_demo = <<>> THEN <<>> ELSE age \o gender
         IN here \o AudienceScores(Tail(athlete_metrics), brand_target)

\* CompatibilityModel._calculate_audience_match
CM_audience_match(athlete_metrics, brand_data) ==
    IF athlete_metrics = <<>> THEN 5000
    ELSE LET brand_target == Get(brand_data, "target_demographics", <<>>)
         IN IF brand_target = <<>> THEN 7000
            ELSE LET match_scores == AudienceScores(athlete_metrics, brand_target)
                 IN IF match_scores = <<>> THEN 6000
                    ELSE (100 * SumSeq(match_scores)) \div Len(match_scores)

\* sum(m.get("followers", 0) for m in metrics)
RECURSIVE TotalFollowers(_)
TotalFollowers(metrics) ==
    IF metrics = <<>> THEN 0
    ELSE Get(Head(metrics), "followers", 0) + TotalFollowers(Tail(metrics))

\* sum of the engagement rates (tenths of a percent); the mean is this sum
\* over Len(metrics)
RECURSIVE TotalEngagement(_)
TotalEngagement(metrics) ==
    IF metrics = <<>> THEN 0
    ELSE Get(Head(metrics), "engagement_rate", 0) + TotalEngagement(Tail(metrics))

\* CompatibilityModel._calculate_engagement_quality
CM_engagement_quality(athlete_metrics) ==
    IF athlete_metrics = <<>> THEN 3000
    ELSE LET n == Len(athlete_metrics)
             s == TotalEngagement(athlete_metrics)
         IN IF s >= 100 * n THEN 10000
            ELSE IF s >= 70 * n THEN 9000
            ELSE IF s >= 50 * n THEN 7500
            ELSE IF s >= 30 * n THEN 6000
            ELSE IF s >= 10 * n THEN 4000
            ELSE 2000

\* CompatibilityModel._calculate_budget_compatibility
\* estimated_rate = followers * 0.005 * (1 + avg_engagement / 100)
\*                = f * (1000 n + s) / (200 n)
\* with f in thousands of followers and s in tenths of a percent
CM_budget_compatibility(athlete_metrics, brand_data) ==
    IF athlete_metrics = <<>> THEN 5000
    ELSE LET n == Len(athlete_metrics)
             f == TotalFollowers(athlete_metrics)
             s == TotalEngagement(athlete_metrics)
             rateNum == f * (1000 * n + s)
             rateDen == 200 * n
             brand_budget_min == Get(brand_data, "budget_min", 0)
             brand_budget_max == Get(brand_data, "budget_max", 0)
         IN IF brand_budget_max = 0 THEN 6000
            ELSE IF rateNum <= brand_budget_min * rateDen THEN 9500
            ELSE IF rateNum <= brand_budget_max * rateDen THEN 10000
            ELSE IF 5 * rateNum <= 6 * brand_budget_max * rateDen THEN 7000
            ELSE IF 2 * rateNum <= 3 * brand_budget_max * rateDen THEN 4000
            ELSE 1500

\* any(part.strip() in brand_location for part in athlete_parts)
AnyPartIn(parts, location) ==
    \E i \in 1..Len(parts) : Contains(location, Strip(parts[i]))

\* CompatibilityModel._calculate_location_proximity
CM_location_proximity(athlete_data, brand_data) ==
    LET athlete_location == Lower(Get(athlete_data, "location", <<>>))
        brand_location   == Lower(Get(brand_data, "location", <<>>))
        athlete_parts    == SplitOn(athlete_location, ",")
        brand_parts      == SplitOn(brand_location, ",")
    IN IF athlete_location = <<>> \/ brand_location = <<>> THEN 5000
       ELSE IF athlete_location = brand_location THEN 10000
       ELSE IF /\ Len(athlete_parts) >= 2
               /\ Len(brand_parts) >= 2
               /\ Strip(athlete_parts[Len(athlete_parts)]) = Strip(brand_parts[Len(brand_parts)])
       THEN 8000
       ELSE IF AnyPartIn(athlete_parts, brand_location) THEN 6000
       ELSE 3000

required_fields == <<"first_name", "last_name", "sport", "school", "bio">>

\* sum(1 for field in required_fields if athlete_data.get(field))
CompletedFields(athlete_data) ==
    Cardinality({i \in 1..Len(required_fields) :
                    Get(athlete_data, required_fields[i], <<>>) # <<>>})

\* CompatibilityModel._calculate_brand_safety
CM_brand_safety(athlete_data, athlete_metrics) ==
    LET base == 8500
        s1 == IF CompletedFields(athlete_data) * 100 < 60 * Len(required_fields)
              THEN base - 1500 ELSE base
        s2 == IF athlete_metrics = <<>> THEN s1
              ELSE IF Len(athlete_metrics) >= 3 THEN s1 + 1000
              ELSE IF Len(athlete_metrics) = 1 THEN s1 - 500
              ELSE s1
        s3 == IF ~Get(athlete_data, "nil_eligible", TRUE) THEN s2 - 3000 ELSE s2
    IN Max(2000, Min(10000, s3))

\* CompatibilityModel.calculate_compatibility_factors
CM_calculate_compatibility_factors(athlete_data, brand_data, athlete_metrics) ==
    [sport_alignment      |-> CM_sport_alignment(athlete_data, brand_data),
     audience_match       |-> CM_audience_match(athlete_metrics, brand_data),
     engagement_quality   |-> CM_engagement_quality(athlete_metrics),
     budget_compatibility |-> CM_budget_compatibility(athlete_metrics, brand_data),
     location_proximity   |-> CM_location_proximity(athlete_data, brand_data),
     brand_safety         |-> CM_brand_safety(athlete_data, athlete_metrics)]

\* the metrics the store holds for an athlete record
StoredMetrics(athlete) ==
    IF "id" \in DOMAIN athlete THEN Get(MetricsByAthlete, athlete.id, <<>>) ELSE <<>>

\* the metrics lists an athlete of the catalogue can come with
MetricsCatalogue == <<<<>>, MetricsByAthlete.a1, MetricsByAthlete.a2>>

\* calculate_compatibility_factors on every athlete and brand of the
\* catalogues and every metrics list: computed once, looked up afterwards
CM_factors_table ==
    [a \in 1..Len(AthleteCatalogue) |->
        [b \in 1..Len(BrandCatalogue) |->
            [m \in 1..Len(MetricsCatalogue) |->
                CM_calculate_compatibility_factors(
                    AthleteCatalogue[a], BrandCatalogue[b], MetricsCatalogue[m])]]]

\* compatibility_model.calculate_compatibility_factors(athlete, brand, metrics)
CM_factors(athlete_data, brand_data, athlete_metrics) ==
    CM_factors_table[TextKey(AthleteCatalogue, athlete_data)]
                    [TextKey(BrandCatalogue, brand_data)]
                    [TextKey(MetricsCatalogue, athlete_metrics)]

\* the weights of api/matching.py, in hundredths
engine_weights ==
    [semantic_similarity  |-> 25,
     sport_alignment      |-> 20,
     audience_match       |-> 20,
     engagement_quality   |-> 15,
     budget_compatibility |-> 10,
     location_proximity   |-> 5,
     brand_safety         |-> 5]

\* sum(factors.get(factor, 0) * weight for factor, weight in weights.items())
WeightedSum(factors, weights) ==
    LET RECURSIVE Acc(_)
        Acc(S) == IF S = {} THEN 0
                  ELSE LET k == CHOOSE x \in S : TRUE
                       IN Get(factors, k, 0) * weights[k] + Acc(S \ {k})
    IN Acc(DOMAIN weights)

\* overall_score of api/matching.py, in 1/10000 of a point;
\* similarity is the cosine similarity in hundredths
EngineOverallScore(factors, similarity) ==
    WeightedSum(factors, engine_weights)
        + similarity * 100 * engine_weights.semantic_similarity

\* list.sort(key=lambda x: x["overall_score"], reverse=True): stable
RECURSIVE InsertByScore(_, _)
InsertByScore(sorted, m) ==
    IF sorted = <<>> THEN <<m>>
    ELSE IF Head(sorted).overall_score >= m.overall_score
    THEN <<Head(sorted)>> \o InsertByScore(Tail(sorted), m)
    ELSE <<m>> \o sorted

\* the list left in the order of the loop
KeepOrder(list) == list

RECURSIVE SortByScore(_)
SortByScore(list) ==
    IF list = <<>> THEN <<>>
    ELSE InsertByScore(SortByScore(SubSeq(list, 1, Len(list) - 1)), list[Len(list)])

\* list[:n]
Take(list, n) == SubSeq(list, 1, Min(n, Len(list)))

-----------------------------------------------------------------------------
(* api-server: AIMatchingService (app/services/ai_matching.py)             *)
(* Every factor is returned in hundredths of a point.                      *)

\* settings.MATCHING_THRESHOLD, in hundredths
MATCHING_THRESHOLD == 70

\* any(sport in athlete_sport.lower() for sport in brand_sports)
AnySportIn(brand_sports, athlete_sport_lower) ==
    \E i \in 1..Len(brand_sports) : Contains(athlete_sport_lower, brand_sports[i])

\* the sport alignment branch of _calculate_compatibility_factors
API_sport_alignment(athlete_data, brand_data) ==
    LET athlete_sport == Get(athlete_data, "sport", <<>>)
        brand_sports  == Get(brand_data, "preferred_sports", <<>>)
    IN IF ListContains(brand_sports, athlete_sport) \/ brand_sports = <<>>
       THEN 10000
       ELSE IF AnySportIn(brand_sports, Lower(athlete_sport)) THEN 7000
       ELSE 2000

\* any(word in brand_location for word in athlete_location.split())
AnyWordIn(words, location) ==
    \E i \in 1..Len(words) : Contains(location, words[i])

\* the location proximity branch of _calculate_compatibility_factors
API_location_proximity(athlete_data, brand_data) ==
    LET athlete_location == Lower(Get(athlete_data, "location", <<>>))
        brand_location   == Lower(Get(brand_data, "location", <<>>))
    IN IF athlete_location = brand_location THEN 10000
       ELSE IF AnyWordIn(SplitWords(athlete_location), brand_location) THEN 6000
       ELSE 3000

\* the engagement quality branch of _calculate_compatibility_factors
\* (the factor keeps its initial 0 when there are no metrics)
API_engagement_quality(athlete_metrics) ==
    IF athlete_metrics = <<>> THEN 0
    ELSE LET n == Len(athlete_metrics)
             s == TotalEngagement(athlete_metrics)
         IN IF s >= 80 * n THEN 10000
            ELSE IF s >= 50 * n THEN 8000
            ELSE IF s >= 20 * n THEN 6000
            ELSE 3000

\* _estimate_athlete_rate * 10: followers * 0.01 * (1 + engagement_score/100)
\* = f * (100 + e) / 10 dollars, f in thousands, e in points
EstimatedRateTimes10(followers, engagement_score) ==
    followers * (100 + engagement_score)

\* the budget fit branch of _calculate_compatibility_factors
API_budget_fit(athlete_metrics, brand_data, engagement_quality) ==
    LET rate10 == EstimatedRateTimes10(TotalFollowers(athlete_metrics),
                                       engagement_quality \div 100)
        brand_budget_max == Get(brand_data, "budget_max", 0)
    IN IF brand_budget_max > 0
       THEN IF rate10 <= brand_budget_max * 8 THEN 10000
            ELSE IF rate10 <= brand_budget_max * 10 THEN 8000
            ELSE IF rate10 <= brand_budget_max * 12 THEN 5000
            ELSE 2000
       ELSE 7000

age_groups == <<S_under_18, S_g18_24, S_g25_34, S_g35_44, S_g45_plus>>

IndexOf(list, x) == CHOOSE i \in 1..Len(list) : list[i] = x

\* AIMatchingService._age_group_distance
API_age_group_distance(age_group1, age_group2) ==
    IF ListContains(age_groups, age_group1) /\ ListContains(age_groups, age_group2)
    THEN LET d == IndexOf(age_groups, age_group1) - IndexOf(age_groups, age_group2)
         IN IF d < 0 THEN -d ELSE d
    ELSE 2

AgeGroupOf(athlete_age) ==
    IF athlete_age <= 18 THEN S_under_18
    ELSE IF athlete_age <= 24 THEN S_g18_24
    ELSE IF athlete_age <= 34 THEN S_g25_34
    ELSE IF athlete_age <= 44 THEN S_g35_44
    ELSE S_g45_plus

InfluenceLevel(total_followers) ==
    IF total_followers >= 1000 THEN S_high
    ELSE IF total_followers >= 100 THEN S_medium
    ELSE IF total_followers >= 10 THEN S_low_medium
    ELSE S_low

income_mapping ==
    { <<S_low, <<S_low, S_low_medium>>>>,
      <<S_medium, <<S_low_medium, S_medium>>>>,
      <<S_high, <<S_medium, S_high>>>> }

\* number of the target interests that occur in the sport or the bio
InterestMatches(target_interests, athlete_sport, athlete_bio) ==
    Cardinality({i \in 1..Len(target_interests) :
                    \/ Contains(athlete_sport, target_interests[i])
                    \/ Contains(athlete_bio, target_interests[i])})

\* AIMatchingService._calculate_audience_demographics_score
\* score = fixed + 2500 * matches / interestLen (hundredths of weight-points);
\* the quotient score / total_weight is cut to hundredths of a point
API_audience_demographics(athlete_data, brand_data, athlete_metrics) ==
    LET target == Get(brand_data, "target_demographics", <<>>)
        hasAge    == "age_group" \in DOMAIN target /\ athlete_metrics # <<>>
        hasGender == "gender" \in DOMAIN target
        hasInt    == "interests" \in DOMAIN target
        hasIncome == "income_level" \in DOMAIN target /\ athlete_metrics # <<>>
        athlete_age_group == AgeGroupOf(Get(athlete_data, "age", 25))
        ageScore ==
            IF ~hasAge THEN 0
            ELSE IF athlete_age_group = target.age_group THEN 100 * 30
            ELSE IF API_age_group_distance(athlete_age_group, target.age_group) = 1 THEN 70 * 30
            ELSE 30 * 30
        genderScore ==
            IF ~hasGender THEN 0
            ELSE IF \/ Lower(target.gender) = S_any
                    \/ Lower(Get(athlete_data, "gender", <<>>)) = Lower(target.gender)
            THEN 100 * 20
            ELSE 40 * 20
        target_interests == IF hasInt THEN LowerAll(target.interests) ELSE <<>>
        matches == InterestMatches(target_interests,
                                   Lower(Get(athlete_data, "sport", <<>>)),
                                   Lower(Get(athlete_data, "bio", <<>>)))
        interestLen == IF target_interests = <<>> THEN 1 ELSE Len(target_interests)
        interestNum == IF ~hasInt THEN 0
                       ELSE IF target_interests = <<>> THEN 70 * 25
                       ELSE 0
        interestVar == IF hasInt /\ target_interests # <<>> THEN 100 * 25 * matches ELSE 0
        influence_level == InfluenceLevel(TotalFollowers(athlete_metrics))
        target_income == IF hasIncome THEN Lower(target.income_level) ELSE <<>>
        incomeScore ==
            IF ~hasIncome THEN 0
            ELSE IF /\ HasKey(income_mapping, target_income)
                    /\ ListContains(Lookup(income_mapping, target_income), influence_level)
            THEN 90 * 25
            ELSE IF influence_level = S_high THEN 75 * 25
            ELSE 50 * 25
        total_weight == (IF hasAge THEN 30 ELSE 0) + (IF hasGender THEN 20 ELSE 0)
                        + (IF hasInt THEN 25 ELSE 0) + (IF hasIncome THEN 25 ELSE 0)
        fixed == ageScore + genderScore + interestNum + incomeScore
        final_score ==
            IF total_weight > 0
            THEN (100 * (fixed * interestLen + interestVar)) \div (interestLen * total_weight)
            ELSE 7000
    IN IF target = <<>> THEN 7000
       ELSE Min(10000, Max(0, final_score))

red_flag_keywords ==
    <<S_controversial, S_scandal, S_arrest, S_lawsuit, S_drugs, S_alcohol,
      S_violence, S_inappropriate, S_suspended, S_banned, S_violation>>

moderate_risk_keywords ==
    <<S_party, S_wild, S_crazy, S_rebel, S_outspoken, S_political>>

\* sum(1 for keyword in keywords if keyword in bio)
KeywordsFound(keywords, bio) ==
    Cardinality({i \in 1..Len(keywords) : Contains(bio, keywords[i])})

\* AIMatchingService._calculate_brand_safety_score
API_brand_safety(athlete_data, athlete_metrics) ==
    LET bio == Lower(Get(athlete_data, "bio", <<>>))
        s0 == 10000 - KeywordsFound(red_flag_keywords, bio) * 2500
                    - KeywordsFound(moderate_risk_keywords, bio) * 1000
        n  == Len(athlete_metrics)
        e  == TotalEngagement(athlete_metrics)
        f  == TotalFollowers(athlete_metrics)
        s1 == IF athlete_metrics # <<>> /\ e > 150 * n /\ f < 10 THEN s0 - 1500 ELSE s0
        s2 == IF athlete_metrics # <<>> /\ e < 10 * n /\ f > 50 THEN s1 - 1000 ELSE s1
        s3 == IF Get(athlete_data, "verified", FALSE) THEN s2 + 500 ELSE s2
        completed == CompletedFields(athlete_data)
        s4 == IF completed * 100 >= 80 * Len(required_fields) THEN s3 + 500
              ELSE IF completed * 100 < 50 * Len(required_fields) THEN s3 - 1000
              ELSE s3
    IN Min(10000, Max(2000, s4))

\* AIMatchingService._calculate_compatibility_factors
API_calculate_compatibility_factors(athlete_data, brand_data, athlete_metrics) ==
    LET engagement_quality == API_engagement_quality(athlete_metrics)
    IN [sport_alignment       |-> API_sport_alignment(athlete_data, brand_data),
        location_proximity    |-> API_location_proximity(athlete_data, brand_data),
        audience_demographics |-> API_audience_demographics(athlete_data, brand_data, athlete_metrics),
        budget_fit            |-> API_budget_fit(athlete_metrics, brand_data, engagement_quality),
        engagement_quality    |-> engagement_quality,
        brand_safety          |-> API_brand_safety(athlete_data, athlete_metrics)]

\* _calculate_compatibility_factors on every athlete and brand of the
\* catalogues and every metrics list: computed once, looked up afterwards
API_factors_table ==
    [a \in 1..Len(AthleteCatalogue) |->
        [b \in 1..Len(ApiBrandCatalogue) |->
            [m \in 1..Len(MetricsCatalogue) |->
                API_calculate_compatibility_factors(
                    AthleteCatalogue[a], ApiBrandCatalogue[b], MetricsCatalogue[m])]]]

\* self._calculate_compatibility_factors(athlete, brand, metrics)
API_factors(athlete_data, brand_data, athlete_metrics) ==
    API_factors_table[TextKey(AthleteCatalogue, athlete_data)]
                     [TextKey(ApiBrandCatalogue, brand_data)]
                     [TextKey(MetricsCatalogue, athlete_metrics)]

\* a weight table in which brand safety counts against the score
api_weights_negative ==
    [semantic_similarity   |-> 30,
     sport_alignment       |-> 25,
     engagement_quality    |-> 20,
     budget_fit            |-> 15,
     location_proximity    |-> 5,
     audience_demographics |-> 3,
     brand_safety          |-> -2]

\* the weights of find_athlete_matches / find_brand_matches, in hundredths
api_weights ==
    [semantic_similarity   |-> 30,
     sport_alignment       |-> 25,
     engagement_quality    |-> 20,
     budget_fit            |-> 15,
     location_proximity    |-> 5,
     audience_demographics |-> 3,
     brand_safety          |-> 2]

\* overall_score of find_athlete_matches / find_brand_matches, in 1/10000 of
\* a point; similarity is the cosine similarity in hundredths
ApiOverallScore(factors, similarity) ==
    similarity * 100 * api_weights.semantic_similarity
      + factors.sport_alignment * api_weights.sport_alignment
      + factors.engagement_quality * api_weights.engagement_quality
      + factors.budget_fit * api_weights.budget_fit
      + factors.location_proximity * api_weights.location_proximity
      + factors.audience_demographics * api_weights.audience_demographics
      + factors.brand_safety * api_weights.brand_safety

\* the keys of the factors dict in insertion order, which is the order
\* factors.items() iterates in
factor_order ==
    <<"sport_alignment", "audience_match", "engagement_quality",
      "budget_compatibility", "location_proximity", "brand_safety">>

\* [name for name, score in factors.items() if score < 50]
weak_factors(factors) ==
    LET Weak(name) == name \in DOMAIN factors /\ factors[name] < Points(50)
    IN SelectSeq(factor_order, Weak)

\* the band of an overall score (1/10000 point) in both recommendation
\* functions
RecommendationBand(overall_score) ==
    IF overall_score >= 100 * Points(85) THEN "excellent"
    ELSE IF overall_score >= 100 * Points(70) THEN "good"
    ELSE IF overall_score >= 100 * Points(55) THEN "moderate"
    ELSE "low"

\* CompatibilityModel.generate_recommendation: the text is the band's
\* sentence; in the moderate band it carries ", ".join(weak_factors[:2])
CM_generate_recommendation(overall_score, factors) ==
    LET band == RecommendationBand(overall_score)
    IN [band |-> band,
        names |-> IF band = "moderate" THEN Take(weak_factors(factors), 2)
                  ELSE <<>>]

\* AIMatchingService._generate_recommendation: a fixed sentence per band
API_generate_recommendation(overall_score, factors) ==
    [band |-> RecommendationBand(overall_score), names |-> <<>>]

\* AIMatchingService.calculate_detailed_compatibility: overall_score and
\* semantic_similarity in tenths of a point, estimated_success_rate in
\* 1/10000 point
calculate_detailed_compatibility(athlete_data, athlete_metrics, brand_data, enc) ==
    LET factors == API_factors(athlete_data, brand_data, athlete_metrics)
        semantic_similarity ==
            Similarity(enc, TextKey(AthleteCatalogue, athlete_data),
                       TextKey(ApiBrandCatalogue, brand_data))
        overall_score == ApiOverallScore(factors, semantic_similarity)
    IN [overall_score |-> RoundHalfEven(overall_score, 1000),
        semantic_similarity |-> 10 * semantic_similarity,
        compatibility_factors |-> factors,
        recommendation |-> API_generate_recommendation(overall_score, factors),
        estimated_success_rate |->
            Min(100 * Points(95), Max(100 * Points(10), overall_score - 100 * Points(10)))]

\* whether the try block of find_athlete_matches raises for this athlete:
\* athlete['id'] (KeyError) or the athlete_metrics query.  fetch_ok: whether
\* the store answers that query.
AthletePassRaises(athlete, fetch_ok) ==
    "id" \notin DOMAIN athlete \/ ~fetch_ok

\* the try block of find_athlete_matches for one athlete when it does not
\* raise: the matches list after it
AthletePass(matches, brand_data, athlete, enc) ==
    LET athlete_metrics == StoredMetrics(athlete)
        similarity == Similarity(enc, TextKey(AthleteCatalogue, athlete),
                                 TextKey(ApiBrandCatalogue, brand_data))
        factors == API_factors(athlete, brand_data, athlete_metrics)
        overall_score == ApiOverallScore(factors, similarity)
        total_followers == TotalFollowers(athlete_metrics)
    IN IF overall_score >= MATCHING_THRESHOLD * 10000
       THEN Append(matches,
                   [athlete_id |-> athlete.id,
                    overall_score |-> RoundHalfEven(overall_score, 1000),
                    factors |-> factors,
                    estimated_rate |->
                        10 * EstimatedRateTimes10(total_followers,
                                                  factors.engagement_quality \div 100),
                    total_followers |-> total_followers])
       ELSE matches

\* the loop of find_athlete_matches with an except clause that ends the loop
RECURSIVE AthleteLoopAbort(_, _, _, _, _, _)
AthleteLoopAbort(matches, brand_data, athletes_data, fetch_ok, enc, i) ==
    IF i > Len(athletes_data) THEN matches
    ELSE IF AthletePassRaises(athletes_data[i], fetch_ok[i]) THEN matches
    ELSE AthleteLoopAbort(AthletePass(matches, brand_data, athletes_data[i], enc),
                          brand_data, athletes_data, fetch_ok, enc, i + 1)

\* the loop of find_athlete_matches from the i-th athlete on; the except
\* clause logs and continues with the next athlete
RECURSIVE AthleteLoop(_, _, _, _, _, _)
AthleteLoop(matches, brand_data, athletes_data, fetch_ok, enc, i) ==
    IF i > Len(athletes_data) THEN matches
    ELSE IF AthletePassRaises(athletes_data[i], fetch_ok[i])
    THEN AthleteLoop(matches, brand_data, athletes_data, fetch_ok, enc, i + 1)
    ELSE AthleteLoop(AthletePass(matches, brand_data, athletes_data[i], enc),
                     brand_data, athletes_data, fetch_ok, enc, i + 1)

\* AIMatchingService.find_athlete_matches.  fetch_ok[i]: whether the store
\* answers the metrics query for the i-th athlete.
find_athlete_matches(brand_data, athletes_data, fetch_ok, enc) ==
    SortByScore(AthleteLoop(<<>>, brand_data, athletes_data, fetch_ok, enc, 1))

\* one pass of the loop body of find_brand_matches for one brand
BrandPass(matches, athlete_data, athlete_metrics, brand, enc) ==
    LET similarity == Similarity(enc, TextKey(AthleteCatalogue, athlete_data),
                                 TextKey(ApiBrandCatalogue, brand))
        factors == API_factors(athlete_data, brand, athlete_metrics)
        overall_score == ApiOverallScore(factors, similarity)
    IN IF overall_score >= MATCHING_THRESHOLD * 10000
       THEN IF "id" \notin DOMAIN brand THEN matches
            ELSE Append(matches,
                        [brand_id |-> brand.id,
                         overall_score |-> RoundHalfEven(overall_score, 1000),
                         factors |-> factors])
       ELSE matches

RECURSIVE BrandLoop(_, _, _, _, _, _)
BrandLoop(matches, athlete_data, athlete_metrics, brands_data, enc, i) ==
    IF i > Len(brands_data) THEN matches
    ELSE BrandLoop(BrandPass(matches, athlete_data, athlete_metrics, brands_data[i], enc),
                   athlete_data, athlete_metrics, brands_data, enc, i + 1)

\* AIMatchingService.find_brand_matches
find_brand_matches(athlete_data, athlete_metrics, brands_data, enc) ==
    SortByScore(BrandLoop(<<>>, athlete_data, athlete_metrics, brands_data, enc, 1))

-----------------------------------------------------------------------------
(* ai-engine: EmbeddingModel (models/embedding_model.py)                   *)
(* A class state is the record of the class attributes plus the two        *)
(* construction counters.                                                  *)

ClassState == [inst |-> cls_instance, model |-> cls_model,
               loaded |-> cls_model_loaded, objects |-> objects,
               builds |-> builds]

\* load_model without the "if not cls._model_loaded" guard
load_model_unguarded(st, ok) ==
    LET st1 == IF st.inst # None
               THEN st
               ELSE [st EXCEPT !.objects = @ + 1]
    IN IF ok
       THEN [st |-> [st1 EXCEPT !.model = st1.builds + 1,
                                !.builds = @ + 1,
                                !.loaded = TRUE],
             raised |-> FALSE]
       ELSE [st |-> st1, raised |-> TRUE]

\* EmbeddingModel.load_model().  ok: whether SentenceTransformer(...) can be
\* constructed now.  Returns the new class state and whether the call raised.
\* With a cached instance get_instance() returns it; with none a throw-away
\* EmbeddingModel() supplies the model name.
load_model(st, ok) ==
    IF st.loaded
    THEN [st |-> st, raised |-> FALSE]
    ELSE LET st1 == IF st.inst # None
                    THEN st
                    ELSE [st EXCEPT !.objects = @ + 1]
         IN IF ok
            THEN [st |-> [st1 EXCEPT !.model = st1.builds + 1,
                                     !.builds = @ + 1,
                                     !.loaded = TRUE],
                  raised |-> FALSE]
            ELSE [st |-> st1, raised |-> TRUE]

\* a get_instance() that attempts the load again while no model is loaded
get_instance_retrying(st, ok) ==
    IF st.inst = None \/ ~st.loaded
    THEN LET st1 == IF st.inst = None
                    THEN [st EXCEPT !.inst = st.objects + 1, !.objects = @ + 1]
                    ELSE st
             r   == load_model(st1, ok)
         IN [st |-> r.st, raised |-> r.raised,
             value |-> IF r.raised THEN None ELSE r.st.inst]
    ELSE [st |-> st, raised |-> FALSE, value |-> st.inst]

\* EmbeddingModel.get_instance().  Returns the new class state, whether the
\* call raised, and the object returned (None when it raised).
get_instance(st, ok) ==
    IF st.inst = None
    THEN LET st1 == [st EXCEPT !.inst = st.objects + 1, !.objects = @ + 1]
             r   == load_model(st1, ok)
         IN [st |-> r.st, raised |-> r.raised,
             value |-> IF r.raised THEN None ELSE r.st.inst]
    ELSE [st |-> st, raised |-> FALSE, value |-> st.inst]

\* EmbeddingModel.is_loaded()
is_loaded(st) == st.loaded /\ st.model # None

\* an embedding call that never checks for the model
EmbeddingNeverRaises(st) == FALSE

\* the guard of create_athlete_embedding / create_brand_embedding:
\* "if not self._model: raise RuntimeError"
EmbeddingRaises(st) == st.model = None

SetClassState(st) ==
    /\ cls_instance' = st.inst
    /\ cls_model' = st.model
    /\ cls_model_loaded' = st.loaded
    /\ objects' = st.objects
    /\ builds' = st.builds

EngineCallAllowed ==
    /\ started
    /\ engineCalls < MaxEngineCalls

\* main.py lifespan: pre-load the model, log and swallow a failure
Lifespan ==
    /\ ~started
    /\ \E ok \in BOOLEAN :
         LET r == load_model(ClassState, ok)
         IN /\ SetClassState(r.st)
            /\ engineResp' = [op |-> "lifespan", status |-> IF r.raised THEN "load_failed" ELSE "loaded", body |-> <<>>]
    /\ started' = TRUE
    /\ UNCHANGED <<returned, engineCalls, encoder, matchCall, campaignVars, workerVars, scoringVars>>

\* a direct call of EmbeddingModel.load_model()
LoadModelCall ==
    /\ EngineCallAllowed
    /\ \E ok \in BOOLEAN :
         LET r == load_model(ClassState, ok)
         IN /\ SetClassState(r.st)
            /\ engineResp' = [op |-> "load_model", status |-> IF r.raised THEN "raised" ELSE "ok", body |-> <<>>]
    /\ engineCalls' = engineCalls + 1
    /\ UNCHANGED <<started, returned, encoder, matchCall, campaignVars, workerVars, scoringVars>>

\* a direct call of EmbeddingModel.get_instance()
GetInstanceCall ==
    /\ EngineCallAllowed
    /\ \E ok \in BOOLEAN :
         LET r == get_instance(ClassState, ok)
         IN /\ SetClassState(r.st)
            /\ returned' = IF r.raised THEN returned ELSE returned \cup {r.value}
            /\ engineResp' = [op |-> "get_instance", status |-> IF r.raised THEN "raised" ELSE "ok", body |-> r.value]
    /\ engineCalls' = engineCalls + 1
    /\ UNCHANGED <<started, encoder, matchCall, campaignVars, workerVars, scoringVars>>

\* main.py GET /health
health_check ==
    /\ EngineCallAllowed
    /\ engineResp' = [op |-> "health", status |-> "healthy",
                      body |-> IF is_loaded(ClassState) THEN "healthy" ELSE "loading"]
    /\ engineCalls' = engineCalls + 1
    /\ UNCHANGED <<cls_instance, cls_model, cls_model_loaded, objects, builds,
                   started, returned, encoder, matchCall, campaignVars, workerVars, scoringVars>>

-----------------------------------------------------------------------------
(* ai-engine: the endpoints of api/matching.py                             *)

BulkThreshold == 60
BulkTopN == 10

\* EmbeddingModel.create_athlete_embedding / create_brand_embedding:
\* raises when no model is held, else the embedding of the profile's text
create_embedding(st, catalogue, profile) ==
    IF EmbeddingRaises(st)
    THEN [raised |-> TRUE, value |-> None]
    ELSE [raised |-> FALSE, value |-> TextKey(catalogue, profile)]

\* the two embedding loops of bulk_matching_analysis: a dict id -> embedding,
\* or raised when a record has no "id" or an embedding call raises
RECURSIVE EmbeddingsById(_, _, _, _)
EmbeddingsById(st, catalogue, records, acc) ==
    IF records = <<>> THEN [raised |-> FALSE, value |-> acc]
    ELSE LET rec == Head(records)
         IN IF "id" \notin DOMAIN rec
            THEN [raised |-> TRUE, value |-> acc]
            ELSE LET e == create_embedding(st, catalogue, rec)
                 IN IF e.raised
                    THEN [raised |-> TRUE, value |-> acc]
                    ELSE EmbeddingsById(st, catalogue, Tail(records),
                            [k \in (DOMAIN acc) \cup {rec.id} |->
                                IF k = rec.id THEN e.value ELSE acc[k]])

\* the inner loop of bulk_matching_analysis for one athlete: the matches at
\* or above the threshold, in the order of the brands
RECURSIVE BulkAthleteMatches(_, _, _, _, _, _)
BulkAthleteMatches(enc, athlete, athlete_embedding, athlete_metrics, brands, brand_embeddings) ==
    IF brands = <<>> THEN <<>>
    ELSE LET brand    == Head(brands)
             brand_id == brand.id
             factors  == CM_factors(athlete, brand, athlete_metrics)
             semantic_similarity == Similarity(enc, athlete_embedding, brand_embeddings[brand_id])
             overall_score == EngineOverallScore(factors, semantic_similarity)
             rest == BulkAthleteMatches(enc, athlete, athlete_embedding, athlete_metrics,
                                        Tail(brands), brand_embeddings)
         IN IF overall_score >= BulkThreshold * 10000
            THEN <<[brand_id |-> brand_id,
                    overall_score |-> RoundHalfEven(overall_score, 1000),
                    factors |-> factors,
                    semantic_similarity |-> semantic_similarity * 10]>> \o rest
            ELSE rest

\* the outer loop of bulk_matching_analysis
RECURSIVE BulkResults(_, _, _, _, _, _)
BulkResults(enc, athletes, brands, metrics_by_id, athlete_embeddings, brand_embeddings) ==
    IF athletes = <<>> THEN <<>>
    ELSE LET athlete    == Head(athletes)
             athlete_id == athlete.id
             athlete_metrics == Get(metrics_by_id, athlete_id, <<>>)
             athlete_matches ==
                 BulkAthleteMatches(enc, athlete, athlete_embeddings[athlete_id],
                                    athlete_metrics, brands, brand_embeddings)
         IN <<[athlete_id |-> athlete_id,
               matches |-> Take(SortByScore(athlete_matches), BulkTopN)]>>
            \o BulkResults(enc, Tail(athletes), brands, metrics_by_id,
                           athlete_embeddings, brand_embeddings)

ServerError(op) == [op |-> op, status |-> 500, body |-> <<>>]

\* POST /matching/bulk-analysis.  ok: whether a model load attempted by
\* get_instance() succeeds; enc: the encoder.  Returns the new class state
\* and the response.
bulk_matching_analysis(st0, request, ok, enc) ==
    LET gi == get_instance(st0, ok)
        st == gi.st
        ae == EmbeddingsById(st, AthleteCatalogue, request.athletes, <<>>)
        be == EmbeddingsById(st, BrandCatalogue, request.brands, <<>>)
    IN IF gi.raised \/ ae.raised \/ be.raised
       THEN [st |-> st, resp |-> ServerError("bulk_analysis")]
       ELSE [st |-> st,
             resp |-> [op |-> "bulk_analysis", status |-> 200,
                       body |-> BulkResults(enc, request.athletes, request.brands,
                                            request.athlete_metrics, ae.value, be.value)]]

\* POST /matching/calculate-compatibility.  The response model requires
\* 0 <= overall_score <= 100; a score outside fails validation (500).
calculate_compatibility(st0, request, ok, enc) ==
    LET gi == get_instance(st0, ok)
        st == gi.st
        ae == create_embedding(st, AthleteCatalogue, request.athlete_data)
        be == create_embedding(st, BrandCatalogue, request.brand_data)
        factors == CM_factors(request.athlete_data, request.brand_data, request.athlete_metrics)
        semantic_similarity == Similarity(enc, ae.value, be.value)
        overall_score == EngineOverallScore(factors, semantic_similarity)
        rounded == RoundHalfEven(overall_score, 1000)
    IN IF gi.raised \/ ae.raised \/ be.raised
       THEN [st |-> st, resp |-> ServerError("calculate_compatibility")]
       ELSE IF rounded < 0 \/ rounded > 1000
       THEN [st |-> st, resp |-> ServerError("calculate_compatibility")]
       ELSE [st |-> st,
             resp |-> [op |-> "calculate_compatibility", status |-> 200,
                       body |-> [overall_score |-> rounded,
                                 factors |-> factors,
                                 estimated_success_rate |->
                                     RoundHalfEven(Min(950000, Max(100000, overall_score - 50000)), 1000)]]]

CalculateCompatibilityCall ==
    /\ EngineCallAllowed
    /\ \E ok \in BOOLEAN, a \in 1..Len(AthleteCatalogue), b \in 1..Len(BrandCatalogue) :
         LET request == [athlete_data |-> AthleteCatalogue[a],
                         brand_data |-> BrandCatalogue[b],
                         athlete_metrics |-> StoredMetrics(AthleteCatalogue[a])]
             r == calculate_compatibility(ClassState, request, ok, encoder)
         IN /\ SetClassState(r.st)
            /\ engineResp' = [op |-> r.resp.op, status |-> r.resp.status,
                              body |-> r.resp.body, request |-> request]
    /\ engineCalls' = engineCalls + 1
    /\ UNCHANGED <<started, returned, encoder, matchCall, campaignVars, workerVars, scoringVars>>

\* the records the repeated bulk requests are built from
EngineAthletes == <<AthleteBasketball, AthleteNoId>>
EngineBrands == <<BrandApparel, BrandNoId>>

BulkAnalysisCall ==
    /\ EngineCallAllowed
    /\ \E ok \in BOOLEAN,
          athletes \in ListsUpTo(EngineAthletes, MaxEngineList),
          brands \in ListsUpTo(EngineBrands, MaxEngineList) :
         LET request == [athletes |-> athletes, brands |-> brands,
                         athlete_metrics |-> MetricsByAthlete]
             r == bulk_matching_analysis(ClassState, request, ok, encoder)
         IN /\ SetClassState(r.st)
            /\ engineResp' = [op |-> r.resp.op, status |-> r.resp.status,
                              body |-> r.resp.body, request |-> request]
    /\ engineCalls' = engineCalls + 1
    /\ UNCHANGED <<started, returned, encoder, matchCall, campaignVars, workerVars, scoringVars>>

\* no call of the matching service yet; no campaign run
NoMatchCall == [op |-> "none"]

MatchIdle == matchCall = NoMatchCall

\* the api-server is called while the ai-engine has served nothing
ApiCallAllowed == MatchIdle /\ engineCalls = 0

\* no worker task, no factor calculation and no aggregation
WorkerIdle == tasks = <<>>

ScoringIdle ==
    /\ fIn = <<>>
    /\ fOut = <<>>
    /\ agg = <<>>

CampaignIdle ==
    /\ rows = <<>>
    /\ campaignTotal = <<>>
    /\ notifications = <<>>
    /\ runs = <<>>
    /\ lastWrite = <<>>
    /\ bulk = <<>>

\* the ai-engine process before start-up
EngineStart ==
    /\ cls_instance = None
    /\ cls_model = None
    /\ cls_model_loaded = FALSE
    /\ objects = 0
    /\ builds = 0
    /\ started = FALSE
    /\ returned = {}
    /\ engineResp = [op |-> "none", status |-> "none", body |-> <<>>]
    /\ engineCalls = 0

EngineInit ==
    /\ EngineStart
    /\ encoder \in 0..MaxEncoder
    /\ MatchIdle
    /\ CampaignIdle
    /\ WorkerIdle
    /\ ScoringIdle

EngineNext ==
    \/ Lifespan
    \/ LoadModelCall
    \/ GetInstanceCall
    \/ health_check
    \/ CalculateCompatibilityCall
    \/ BulkAnalysisCall

SpecEngine == EngineInit /\ [][EngineNext]_vars

-----------------------------------------------------------------------------
(* The matching operations on richer requests, each called once.           *)

MaxMatchList == 3
MaxBulkList == 2

\* AthleteMatchRequest.limit (default)
RouteLimit == 10

\* a call of find_athlete_matches that also stores what it found
FindAthleteMatchesCallStoring ==
    /\ ApiCallAllowed
    /\ \E b \in 1..Len(ApiBrandCatalogue),
          athletes \in ListsUpTo(AthleteCatalogue, MaxMatchList) :
         \E fetch_ok \in [1..Len(athletes) -> BOOLEAN] :
            LET result == find_athlete_matches(ApiBrandCatalogue[b], athletes,
                                               fetch_ok, encoder)
            IN /\ matchCall' = [op |-> "find_athlete_matches",
                                brand_data |-> ApiBrandCatalogue[b],
                                athletes_data |-> athletes,
                                fetch_ok |-> fetch_ok,
                                raised |-> FALSE,
                                result |-> result]
               /\ rows' = rows \o result
    /\ UNCHANGED <<engineVars, encoder, campaignTotal, notifications, runs, lastWrite,
                   bulk, workerVars, scoringVars>>

\* a call of AIMatchingService.find_athlete_matches; fetch_ok[i] tells
\* whether the store answers the metrics query for the i-th athlete.  The
\* call returns its list: no statement after the loop's except can raise.
FindAthleteMatchesCall ==
    /\ ApiCallAllowed
    /\ \E b \in 1..Len(ApiBrandCatalogue),
          athletes \in ListsUpTo(AthleteCatalogue, MaxMatchList) :
         \E fetch_ok \in [1..Len(athletes) -> BOOLEAN] :
            matchCall' = [op |-> "find_athlete_matches",
                          brand_data |-> ApiBrandCatalogue[b],
                          athletes_data |-> athletes,
                          fetch_ok |-> fetch_ok,
                          raised |-> FALSE,
                          result |-> find_athlete_matches(ApiBrandCatalogue[b], athletes,
                                                          fetch_ok, encoder)]
    /\ UNCHANGED <<engineVars, encoder, campaignVars, workerVars, scoringVars>>

\* a call of AIMatchingService.find_brand_matches
FindBrandMatchesCall ==
    /\ ApiCallAllowed
    /\ \E a \in 1..Len(AthleteCatalogue),
          brands \in ListsUpTo(ApiBrandCatalogue, MaxMatchList) :
         matchCall' = [op |-> "find_brand_matches",
                       athlete_data |-> AthleteCatalogue[a],
                       brands_data |-> brands,
                       raised |-> FALSE,
                       result |-> find_brand_matches(AthleteCatalogue[a],
                                                     StoredMetrics(AthleteCatalogue[a]),
                                                     brands, encoder)]
    /\ UNCHANGED <<engineVars, encoder, campaignVars, workerVars, scoringVars>>

\* a call of AIMatchingService.calculate_detailed_compatibility
DetailedCompatibilityCall ==
    /\ ApiCallAllowed
    /\ \E a \in 1..Len(AthleteCatalogue), b \in 1..Len(ApiBrandCatalogue) :
         matchCall' = [op |-> "calculate_detailed_compatibility",
                       athlete_data |-> AthleteCatalogue[a],
                       athlete_metrics |-> StoredMetrics(AthleteCatalogue[a]),
                       brand_data |-> ApiBrandCatalogue[b],
                       raised |-> FALSE,
                       result |-> calculate_detailed_compatibility(
                                      AthleteCatalogue[a],
                                      StoredMetrics(AthleteCatalogue[a]),
                                      ApiBrandCatalogue[b], encoder)]
    /\ UNCHANGED <<engineVars, encoder, campaignVars, workerVars, scoringVars>>

\* the athletes the store holds (each has an id)
StoreAthletes == <<AthleteBasketball, AthleteGolf, AthleteTennis>>

\* routes/matching.py POST /athletes-for-brand without filters.
\* brand_ok, athletes_ok: whether the store answers the brand and the athlete
\* query; fetch_ok as in find_athlete_matches.  A failure before the service
\* call is turned into HTTP 500 by the handler's except.  The response model
\* is List[MatchResponse]: the service's dicts lack its required fields, so
\* only the empty list passes response validation.
find_matching_athletes(brand_data, brand_ok, athletes_ok, fetch_ok, enc) ==
    IF ~brand_ok \/ ~athletes_ok
    THEN [status |-> 500, body |-> <<>>]
    ELSE LET matches == find_athlete_matches(brand_data, StoreAthletes, fetch_ok, enc)
             top_matches == Take(matches, RouteLimit)
         IN IF top_matches = <<>>
            THEN [status |-> 200, body |-> top_matches]
            ELSE [status |-> 500, body |-> <<>>]

FindMatchingAthletesRoute ==
    /\ ApiCallAllowed
    /\ \E b \in 1..Len(ApiBrandCatalogue), brand_ok \in BOOLEAN, athletes_ok \in BOOLEAN,
          fetch_ok \in [1..Len(StoreAthletes) -> BOOLEAN] :
         /\ "id" \in DOMAIN ApiBrandCatalogue[b]
         /\ LET r == find_matching_athletes(ApiBrandCatalogue[b], brand_ok, athletes_ok,
                                            fetch_ok, encoder)
            IN matchCall' = [op |-> "athletes_for_brand",
                             brand_data |-> ApiBrandCatalogue[b],
                             brand_ok |-> brand_ok,
                             athletes_ok |-> athletes_ok,
                             fetch_ok |-> fetch_ok,
                             status |-> r.status,
                             result |-> r.body]
    /\ UNCHANGED <<engineVars, encoder, campaignVars, workerVars, scoringVars>>

\* one bulk-analysis request over the whole catalogues, first call after
\* start-up
BulkAnalysisOnce ==
    /\ started
    /\ engineCalls = 0
    /\ MatchIdle
    /\ \E ok \in BOOLEAN,
          athletes \in ListsUpTo(AthleteCatalogue, MaxBulkList),
          brands \in ListsUpTo(BrandCatalogue, MaxBulkList) :
         LET request == [athletes |-> athletes, brands |-> brands,
                         athlete_metrics |-> MetricsByAthlete]
             r == bulk_matching_analysis(ClassState, request, ok, encoder)
         IN /\ SetClassState(r.st)
            /\ engineResp' = [op |-> r.resp.op, status |-> r.resp.status,
                              body |-> r.resp.body, request |-> request]
    /\ engineCalls' = engineCalls + 1
    /\ UNCHANGED <<started, returned, encoder, matchCall, campaignVars, workerVars, scoringVars>>

MatchNext ==
    \/ Lifespan
    \/ BulkAnalysisOnce
    \/ FindAthleteMatchesCall
    \/ FindBrandMatchesCall
    \/ DetailedCompatibilityCall
    \/ FindMatchingAthletesRoute

SpecMatch == EngineInit /\ [][MatchNext]_vars

-----------------------------------------------------------------------------
(* Properties of the matching operations (SpecMatch)                       *)

\* a list of matches is in non-increasing order of overall_score
SortedByScore(list) ==
    \A i \in 1..Len(list) - 1 : list[i].overall_score >= list[i + 1].overall_score

\* every match of the list has a score (tenths) at or above the threshold
\* (points)
AllAtLeast(list, threshold) ==
    \A i \in 1..Len(list) : list[i].overall_score >= threshold * 10

\* C1: the list find_athlete_matches / find_brand_matches returns, and each
\* per-athlete list of a successful bulk analysis, is sorted in
\* non-increasing order of overall_score and holds no score below the
\* threshold (match_threshold * 100, and 60 in the bulk analysis).
C1_SortedAboveThreshold ==
    /\ matchCall.op \in {"find_athlete_matches", "find_brand_matches"} =>
          /\ SortedByScore(matchCall.result)
          /\ AllAtLeast(matchCall.result, MATCHING_THRESHOLD)
    /\ (engineResp.op = "bulk_analysis" /\ engineResp.status = 200) =>
          \A k \in 1..Len(engineResp.body) :
              /\ SortedByScore(engineResp.body[k].matches)
              /\ AllAtLeast(engineResp.body[k].matches, BulkThreshold)

\* find_athlete_matches returned two matches with different scores whose
\* candidates came in the opposite order
C1_Witness ==
    /\ matchCall.op = "find_athlete_matches"
    /\ Len(matchCall.result) = 2
    /\ matchCall.result[1].overall_score > matchCall.result[2].overall_score
    /\ matchCall.athletes_data[1].id = matchCall.result[2].athlete_id

\* the athletes of a call whose pass does not raise, in their order
NonFailingAthletes(athletes_data, fetch_ok) ==
    LET idx == SelectSeq([i \in 1..Len(athletes_data) |-> i],
                         LAMBDA i : ~AthletePassRaises(athletes_data[i], fetch_ok[i]))
    IN [k \in 1..Len(idx) |-> athletes_data[idx[k]]]

AllFetched(athletes_data) == [k \in 1..Len(athletes_data) |-> TRUE]

\* the brands that have an id, in their order
BrandsWithId(brands_data) ==
    SelectSeq(brands_data, LAMBDA b : "id" \in DOMAIN b)

\* C2: a candidate whose scoring raises is left out and the others are
\* still scored: the result equals that of the same call on the input
\* without the failing candidates.
C2_FailingCandidatesSkipped ==
    /\ matchCall.op = "find_athlete_matches" =>
          LET kept == NonFailingAthletes(matchCall.athletes_data, matchCall.fetch_ok)
          IN matchCall.result =
                find_athlete_matches(matchCall.brand_data, kept, AllFetched(kept), encoder)
    /\ matchCall.op = "find_brand_matches" =>
          matchCall.result =
              find_brand_matches(matchCall.athlete_data,
                                 StoredMetrics(matchCall.athlete_data),
                                 BrandsWithId(matchCall.brands_data), encoder)

\* the first candidate raised and a later one is in the result
C2_Witness ==
    /\ matchCall.op = "find_athlete_matches"
    /\ Len(matchCall.athletes_data) >= 2
    /\ AthletePassRaises(matchCall.athletes_data[1], matchCall.fetch_ok[1])
    /\ matchCall.result # <<>>

\* C3: a bulk analysis whose request holds a record that cannot be
\* processed still answers with results for the other athletes.
C3_BulkSurvivesBadRecord ==
    (/\ engineResp.op = "bulk_analysis"
     /\ is_loaded(ClassState)
     /\ \E i \in 1..Len(engineResp.request.athletes) :
            "id" \in DOMAIN engineResp.request.athletes[i]
     /\ \E i \in 1..Len(engineResp.request.brands) :
            "id" \in DOMAIN engineResp.request.brands[i])
    => /\ engineResp.status = 200
       /\ \A i \in 1..Len(engineResp.request.athletes) :
             "id" \in DOMAIN engineResp.request.athletes[i] =>
                 \E k \in 1..Len(engineResp.body) :
                     engineResp.body[k].athlete_id = engineResp.request.athletes[i].id

\* C8: when the store does not answer a metrics query of
\* find_athlete_matches, the call raises instead of returning a list.
C8_StoreErrorPropagates ==
    (/\ matchCall.op = "find_athlete_matches"
     /\ \E i \in 1..Len(matchCall.athletes_data) :
            /\ "id" \in DOMAIN matchCall.athletes_data[i]
            /\ ~matchCall.fetch_ok[i])
    => matchCall.raised

-----------------------------------------------------------------------------
(* Properties of the ai-engine's model lifecycle (SpecEngine)              *)

ScoringOps == {"calculate_compatibility", "bulk_analysis"}

BulkRequestNonEmpty(request) ==
    request.athletes # <<>> \/ request.brands # <<>>

C10_SingletonLifecycle ==
    /\ builds <= 1
    /\ returned \subseteq {cls_instance}
    /\ None \notin returned
    /\ is_loaded(ClassState) <=> cls_model # None

\* a third call after start-up, a get_instance() that returned the cached
\* instance while the one model was held
C10_Witness ==
    /\ engineResp.op = "get_instance"
    /\ engineResp.status = "ok"
    /\ engineCalls = MaxEngineCalls
    /\ builds = 1
    /\ is_loaded(ClassState)

\* an instance is cached and no model is loaded
CachedUnloaded == cls_instance # None /\ ~is_loaded(ClassState)

\* C30: a get_instance() call whose model load raises leaves the instance
\* cached; from then on get_instance() returns the cached instance without a
\* load, is_loaded() stays false and the embedding calls raise, until a
\* direct load_model() call succeeds.
C30_FailedLoadStaysCached ==
    [][/\ (/\ cls_instance = None
           /\ engineResp'.op = "get_instance"
           /\ engineResp'.status = "raised")
          => (cls_instance' # None /\ ~is_loaded(ClassState'))
       /\ CachedUnloaded =>
             /\ cls_instance' = cls_instance
             /\ engineResp'.op = "get_instance" =>
                   /\ engineResp'.status = "ok"
                   /\ engineResp'.body = cls_instance
                   /\ builds' = builds
                   /\ ~is_loaded(ClassState')
             /\ engineResp'.op = "calculate_compatibility" =>
                   (engineResp'.status = 500 /\ ~is_loaded(ClassState'))
             /\ is_loaded(ClassState') =>
                   (engineResp'.op = "load_model" /\ engineResp'.status = "ok")
      ]_vars

\* get_instance() has returned the cached instance although no model was
\* ever built
C30_Witness ==
    /\ engineResp.op = "get_instance"
    /\ engineResp.status = "ok"
    /\ engineResp.body = cls_instance
    /\ CachedUnloaded
    /\ builds = 0

\* the elements of a list
Range(list) == {list[i] : i \in 1..Len(list)}

\* the profiles a call holds after it has returned are the records of the
\* store it was given
SnapshotsAsStored(call) ==
    /\ "brand_data" \in DOMAIN call => call.brand_data \in Range(ApiBrandCatalogue)
    /\ "brands_data" \in DOMAIN call => Range(call.brands_data) \subseteq Range(ApiBrandCatalogue)
    /\ "athlete_data" \in DOMAIN call => call.athlete_data \in Range(AthleteCatalogue)
    /\ "athletes_data" \in DOMAIN call =>
          Range(call.athletes_data) \subseteq Range(AthleteCatalogue)
    /\ "athlete_metrics" \in DOMAIN call =>
          call.athlete_metrics = StoredMetrics(call.athlete_data)

\* C27: find_athlete_matches, find_brand_matches and
\* calculate_detailed_compatibility create or update nothing in the document
\* store (no match row, no campaign total, no notification) and leave the
\* athlete, brand and metrics they were given as they were.
C27_MatchingIsPure ==
    [][matchCall' # matchCall =>
          /\ UNCHANGED <<rows, campaignTotal, notifications, lastWrite>>
          /\ SnapshotsAsStored(matchCall')]_vars

\* find_athlete_matches has returned matches and the store holds no row
C27_Witness ==
    /\ matchCall.op = "find_athlete_matches"
    /\ Len(matchCall.result) >= 1
    /\ rows = <<>>
    /\ campaignTotal = <<>>

-----------------------------------------------------------------------------
(* Campaign processing: AIMatchingService._process_campaign_matches (the   *)
(* "api" kind) and the Celery task calculate_ai_matches (the "worker"      *)
(* kind).  Every call to the store is a step of its own, so the store      *)
(* calls of two runs interleave.                                           *)

MaxStarts == 2

Runs == {"r1", "r2"}
Kinds == {"api", "worker"}

\* the campaigns of the store, with the brand the "brand" expansion gives
CampaignCatalogue ==
    <<[id |-> "c1", brand |-> ApiBrandApparel],
      [id |-> "c2", brand |-> ApiBrandLuxury],
      [id |-> "c3"]>>

\* matches[:50] in _process_campaign_matches, matches[:20] in the task
ApiStoreLimit == 50
WorkerStoreLimit == 20

StoreLimit(kind) == IF kind = "api" THEN ApiStoreLimit ELSE WorkerStoreLimit

\* the campaign record get_one gives for an id
CampaignById(campaign_id) ==
    CampaignCatalogue[CHOOSE c \in 1..Len(CampaignCatalogue) :
                          CampaignCatalogue[c].id = campaign_id]

\* a run's local state; campaign_id "" before the run has one
IdleRun ==
    [pc |-> "idle", kind |-> "none", campaign_id |-> "", matches |-> <<>>,
     i |-> 0, existing |-> None, stored_count |-> 0, result |-> "none", start |-> 0,
     calls |-> <<>>, written |-> <<>>]

\* the attributes of a dict object that are not dunder names
DictAttributes ==
    {"clear", "copy", "fromkeys", "get", "items", "keys", "pop", "popitem",
     "setdefault", "update", "values"}

\* hasattr(d, name) for a dict d: the keys of a dict are not attributes
DictHasAttr(name) == name \in DictAttributes

\* the store calls of a run before its loop, as "collection.method"
GetCampaign == "campaigns.get_one"
ListAthletes == "athletes.get_list"

\* a start in which _process_campaign_matches looks at the brand only after
\* the athlete query
process_start_brand_checked_late(kind, campaign, ok_c, ok_a, eligible, fetch_ok, enc) ==
    IF ~ok_c THEN [next |-> IF kind = "api" THEN "raised" ELSE "failed",
                   matches |-> <<>>, calls |-> <<>>]
    ELSE IF ~ok_a THEN [next |-> IF kind = "api" THEN "raised" ELSE "failed",
                        matches |-> <<>>, calls |-> <<GetCampaign>>]
    ELSE IF "brand" \notin DOMAIN campaign
    THEN [next |-> IF kind = "api" THEN "returned" ELSE "failed",
          matches |-> <<>>, calls |-> <<GetCampaign, ListAthletes>>]
    ELSE IF kind = "api" /\ eligible = <<>>
    THEN [next |-> "returned", matches |-> <<>>, calls |-> <<GetCampaign, ListAthletes>>]
    ELSE [next |-> "store",
          matches |-> find_athlete_matches(campaign.brand, eligible, fetch_ok, enc),
          calls |-> <<GetCampaign, ListAthletes>>]

\* the part of a run before its store loop: the campaign and athlete
\* queries and find_athlete_matches.  ok_c, ok_a: whether the store answers
\* the campaign and the athlete query; eligible: the athletes the query
\* gives, either none or the athletes of the store (the task's query has no
\* filter).  Returns how the run goes on, the matches found and the store
\* calls that were answered.
process_start(kind, campaign, ok_c, ok_a, eligible, fetch_ok, enc) ==
    IF kind = "api"
    THEN IF ~ok_c THEN [next |-> "raised", matches |-> <<>>, calls |-> <<>>]
         ELSE IF "brand" \notin DOMAIN campaign
         THEN [next |-> "returned", matches |-> <<>>, calls |-> <<GetCampaign>>]
         ELSE IF ~ok_a THEN [next |-> "raised", matches |-> <<>>, calls |-> <<GetCampaign>>]
         ELSE IF eligible = <<>>
         THEN [next |-> "returned", matches |-> <<>>,
               calls |-> <<GetCampaign, ListAthletes>>]
         ELSE [next |-> "store",
               matches |-> find_athlete_matches(campaign.brand, eligible, fetch_ok, enc),
               calls |-> <<GetCampaign, ListAthletes>>]
    ELSE IF ~ok_c THEN [next |-> "failed", matches |-> <<>>, calls |-> <<>>]
         ELSE IF ~ok_a THEN [next |-> "failed", matches |-> <<>>, calls |-> <<GetCampaign>>]
         ELSE IF "brand" \notin DOMAIN campaign
         THEN [next |-> "failed", matches |-> <<>>,
               calls |-> <<GetCampaign, ListAthletes>>]
         ELSE [next |-> "store",
               matches |-> find_athlete_matches(campaign.brand, eligible, fetch_ok, enc),
               calls |-> <<GetCampaign, ListAthletes>>]

\* the matches a run stores
ToStore(run) == Take(run.matches, StoreLimit(run.kind))

\* match_data of the run's current match
match_data(run) ==
    LET match == ToStore(run)[run.i]
        common == [campaign |-> run.campaign_id,
                   athlete |-> match.athlete_id,
                   brand |-> CampaignById(run.campaign_id).brand.id,
                   overall_score |-> match.overall_score,
                   estimated_rate |-> match.estimated_rate,
                   status |-> "pending"]
    IN IF run.kind = "api"
       THEN [k \in DOMAIN common \cup {"total_followers"} |->
                IF k = "total_followers" THEN match.total_followers ELSE common[k]]
       ELSE common

\* collection("matches").get_list(filter = campaign && athlete): the id of
\* the first row found (existing_matches.items[0].id), None when
\* total_items is 0.  A row's id is its place in rows.
FirstRow(store, campaign_id, athlete_id) ==
    LET found == {n \in 1..Len(store) : /\ store[n].campaign = campaign_id
                                        /\ store[n].athlete = athlete_id}
    IN IF found = {} THEN None
       ELSE CHOOSE n \in found : \A m \in found : n <= m

\* collection("matches").update(id, data): the fields given replace the
\* row's, the others stay
StoreUpdate(store, id, data) ==
    [store EXCEPT ![id] = [k \in DOMAIN @ \cup DOMAIN data |->
                              IF k \in DOMAIN data THEN data[k] ELSE @[k]]]

\* collection("matches").create(data)
StoreCreate(store, data) == Append(store, data)

\* a write that creates a row whatever the query found
StoreWriteCreateOnly(store, existing, data) == StoreCreate(store, data)

\* the branch after the query: update the row found, else create one
StoreWrite(store, existing, data) ==
    IF existing # None
    THEN StoreUpdate(store, existing, data)
    ELSE StoreCreate(store, data)

\* where the store loop goes after the i-th match
AfterMatch(run) ==
    IF run.i < Len(ToStore(run))
    THEN [run EXCEPT !.i = @ + 1, !.pc = "query", !.existing = None]
    ELSE [run EXCEPT !.i = @ + 1, !.pc = "finish", !.existing = None]

StartsSoFar == LET RECURSIVE Sum(_)
                   Sum(S) == IF S = {} THEN 0
                             ELSE LET r == CHOOSE x \in S : TRUE
                                  IN runs[r].start + Sum(S \ {r})
               IN Sum(Runs)

\* of the choices of a start that end it before find_athlete_matches, one
\* is kept: the later store calls are then never made
StartChoiceMatters(campaign, ok_c, ok_a, eligible, fetch_ok) ==
    (~ok_c \/ ~ok_a \/ "brand" \notin DOMAIN campaign) =>
        /\ eligible = StoreAthletes
        /\ \A i \in DOMAIN fetch_ok : fetch_ok[i]
        /\ ~ok_c => ok_a

\* the run of a process after it has begun one on a campaign: everything up
\* to the first store call of the loop has happened
StartedRun(before, kind, campaign, ok_c, ok_a, eligible, fetch_ok) ==
    LET s == process_start(kind, campaign, ok_c, ok_a, eligible, fetch_ok, encoder)
        run == [IdleRun EXCEPT !.kind = kind, !.campaign_id = campaign.id,
                               !.matches = s.matches,
                               !.calls = s.calls,
                               !.start = before.start + 1]
    IN IF s.next # "store" THEN [run EXCEPT !.pc = "done", !.result = s.next]
       ELSE IF ToStore(run) = <<>> THEN [run EXCEPT !.pc = "finish"]
       ELSE [run EXCEPT !.pc = "query", !.i = 1]

\* a run begins (a process that has finished a run may begin another)
StartRun(r) ==
    /\ runs[r].pc \in {"idle", "done"}
    /\ StartsSoFar < MaxStarts
    /\ \E kind \in Kinds, c \in 1..Len(CampaignCatalogue), ok_c \in BOOLEAN, ok_a \in BOOLEAN,
          eligible \in {<<>>, StoreAthletes} :
         \E fetch_ok \in [1..Len(eligible) -> BOOLEAN] :
            /\ kind = "worker" => eligible = StoreAthletes
            /\ StartChoiceMatters(CampaignCatalogue[c], ok_c, ok_a, eligible, fetch_ok)
            /\ runs' = [runs EXCEPT ![r] =
                           StartedRun(runs[r], kind, CampaignCatalogue[c], ok_c, ok_a,
                                      eligible, fetch_ok)]
    /\ UNCHANGED <<engineVars, encoder, workerVars, scoringVars, matchCall, bulk, rows, campaignTotal, notifications, lastWrite>>

\* the get_list that looks for the row of the current match; when it raises
\* the except clause of the loop logs and the loop goes on
QueryExisting(r) ==
    /\ runs[r].pc = "query"
    /\ \E ok \in BOOLEAN :
         LET run == runs[r]
             data == match_data(run)
         IN runs' = [runs EXCEPT ![r] =
                        IF ok
                        THEN [run EXCEPT !.pc = "write",
                                         !.existing = FirstRow(rows, data.campaign, data.athlete)]
                        ELSE AfterMatch(run)]
    /\ UNCHANGED <<engineVars, encoder, workerVars, scoringVars, matchCall, bulk, rows, campaignTotal, notifications, lastWrite>>

\* a store step that counts every attempt, also those the store refused
WriteMatchCountingAttempts(r) ==
    /\ runs[r].pc = "write"
    /\ \E ok \in BOOLEAN :
         LET run == runs[r]
             data == match_data(run)
             key == <<data.campaign, data.athlete>>
         IN IF ok
            THEN /\ rows' = StoreWrite(rows, run.existing, data)
                 /\ lastWrite' = [k \in DOMAIN lastWrite \cup {key} |->
                                     IF k = key THEN data ELSE lastWrite[k]]
                 /\ runs' = [runs EXCEPT ![r] =
                                AfterMatch([run EXCEPT !.stored_count = @ + 1,
                                                       !.written = Append(@, data.athlete)])]
            ELSE /\ runs' = [runs EXCEPT ![r] = AfterMatch([run EXCEPT !.stored_count = @ + 1])]
                 /\ UNCHANGED <<rows, lastWrite>>
    /\ UNCHANGED <<engineVars, encoder, workerVars, scoringVars, matchCall, bulk, campaignTotal, notifications>>

\* the update or create of the current match; stored_count counts the
\* writes that succeeded (the task keeps no such counter: there it is the
\* number of rows the run has stored); written lists the athletes whose
\* row the store took
WriteMatch(r) ==
    /\ runs[r].pc = "write"
    /\ \E ok \in BOOLEAN :
         LET run == runs[r]
             data == match_data(run)
             key == <<data.campaign, data.athlete>>
         IN IF ok
            THEN /\ rows' = StoreWrite(rows, run.existing, data)
                 /\ lastWrite' = [k \in DOMAIN lastWrite \cup {key} |->
                                     IF k = key THEN data ELSE lastWrite[k]]
                 /\ runs' = [runs EXCEPT ![r] =
                                AfterMatch([run EXCEPT !.stored_count = @ + 1,
                                                       !.written = Append(@, data.athlete)])]
            ELSE /\ runs' = [runs EXCEPT ![r] = AfterMatch(run)]
                 /\ UNCHANGED <<rows, lastWrite>>
    /\ UNCHANGED <<engineVars, encoder, workerVars, scoringVars, matchCall, bulk, campaignTotal, notifications>>

\* the notification a run queues with send_notification.delay
Notification(r, run, matches_count, top_score) ==
    [user |-> CampaignById(run.campaign_id).brand.user, type |-> "new_matches_available",
     campaign_id |-> run.campaign_id, matches_count |-> matches_count,
     top_score |-> top_score, run |-> r, start |-> run.start]

\* the end of _process_campaign_matches: the campaign update (ok: whether
\* the store takes it; if not the exception is re-raised) and the
\* notification, guarded by hasattr(brand_data, 'user') on the dict
FinishApi(r) ==
    /\ runs[r].pc = "finish"
    /\ runs[r].kind = "api"
    /\ \E ok \in BOOLEAN :
         LET run == runs[r]
         IN IF ~ok
            THEN /\ runs' = [runs EXCEPT ![r] = [run EXCEPT !.pc = "done", !.result = "raised"]]
                 /\ UNCHANGED <<campaignTotal, notifications>>
            ELSE /\ campaignTotal' =
                        [k \in DOMAIN campaignTotal \cup {run.campaign_id} |->
                            IF k = run.campaign_id THEN run.stored_count ELSE campaignTotal[k]]
                 /\ notifications' =
                        IF /\ run.stored_count > 0
                           /\ DictHasAttr("user")
                           /\ CampaignById(run.campaign_id).brand.user # ""
                        THEN Append(notifications,
                                    Notification(r, run, run.stored_count,
                                                 IF run.matches # <<>>
                                                 THEN run.matches[1].overall_score ELSE 0))
                        ELSE notifications
                 /\ runs' = [runs EXCEPT ![r] = [run EXCEPT !.pc = "done", !.result = "returned"]]
    /\ UNCHANGED <<engineVars, encoder, workerVars, scoringVars, matchCall, bulk, rows, lastWrite>>

\* the end of calculate_ai_matches: the notification, then "completed"
FinishWorker(r) ==
    /\ runs[r].pc = "finish"
    /\ runs[r].kind = "worker"
    /\ LET run == runs[r]
           top_matches == ToStore(run)
       IN /\ notifications' =
                IF CampaignById(run.campaign_id).brand.user # "" /\ top_matches # <<>>
                THEN Append(notifications,
                            Notification(r, run, Len(top_matches), top_matches[1].overall_score))
                ELSE notifications
          /\ runs' = [runs EXCEPT ![r] = [run EXCEPT !.pc = "done", !.result = "completed"]]
    /\ UNCHANGED <<engineVars, encoder, workerVars, scoringVars, matchCall, bulk, rows, campaignTotal, lastWrite>>

CampaignInit ==
    /\ EngineStart
    /\ encoder \in 0..MaxEncoder
    /\ MatchIdle
    /\ rows = <<>>
    /\ campaignTotal = <<>>
    /\ notifications = <<>>
    /\ runs = [r \in Runs |-> IdleRun]
    /\ lastWrite = <<>>
    /\ bulk = <<>>
    /\ WorkerIdle
    /\ ScoringIdle

CampaignNext ==
    \E r \in Runs :
        \/ StartRun(r)
        \/ QueryExisting(r)
        \/ WriteMatch(r)
        \/ FinishApi(r)
        \/ FinishWorker(r)

SpecCampaign == CampaignInit /\ [][CampaignNext]_vars

\* runs one after the other: a single process, each run begun after the
\* one before it has ended
SeqNext ==
    \/ StartRun("r1")
    \/ QueryExisting("r1")
    \/ WriteMatch("r1")
    \/ FinishApi("r1")
    \/ FinishWorker("r1")

SpecCampaignSeq == CampaignInit /\ [][SeqNext]_vars

-----------------------------------------------------------------------------
(* run_bulk_matching_analysis: the active campaigns are listed once, then  *)
(* _process_campaign_matches runs on each in turn, in the process "r1".    *)

MaxActive == 3

\* the lists of active campaigns get_list can give: distinct records, given
\* by their places in the catalogue
ActiveCampaignLists ==
    {l \in UNION {[1..n -> 1..Len(CampaignCatalogue)] : n \in 0..MaxActive} :
        \A i, j \in DOMAIN l : i # j => l[i] # l[j]}

\* status: idle, running, returned or raised; pos: the place in campaigns of
\* the next campaign; written: the rows the store has taken so far, as
\* <<campaign, athlete>>
IdleBulk == [status |-> "idle", campaigns |-> <<>>, pos |-> 0, written |-> <<>>]

\* the rows a run has written, as <<campaign, athlete>>
WrittenBy(run) == [k \in 1..Len(run.written) |-> <<run.campaign_id, run.written[k]>>]

\* the get_list of the active campaigns; when it raises, the except clause
\* logs and re-raises
BulkBegin ==
    /\ bulk.status = "idle"
    /\ \E ok \in BOOLEAN, active \in ActiveCampaignLists :
          /\ ~ok => active = <<>>
          /\ bulk' = IF ok
                     THEN [IdleBulk EXCEPT
                              !.status = "running",
                              !.campaigns = [i \in DOMAIN active |->
                                                CampaignCatalogue[active[i]].id],
                              !.pos = 1]
                     ELSE [IdleBulk EXCEPT !.status = "raised"]
    /\ UNCHANGED <<engineVars, encoder, workerVars, scoringVars, matchCall, rows,
                   campaignTotal, notifications, runs, lastWrite>>

\* a loop in which a campaign that raised is passed over
BulkCampaignSkippingErrors ==
    /\ bulk.status = "running"
    /\ runs["r1"].pc \in {"idle", "done"}
    /\ LET written == bulk.written \o WrittenBy(runs["r1"])
       IN IF bulk.pos > Len(bulk.campaigns)
          THEN /\ bulk' = [bulk EXCEPT !.status = "returned", !.written = written]
               /\ UNCHANGED runs
          ELSE /\ \E ok_c \in BOOLEAN, ok_a \in BOOLEAN, eligible \in {<<>>, StoreAthletes} :
                    \E fetch_ok \in [1..Len(eligible) -> BOOLEAN] :
                       LET campaign == CampaignById(bulk.campaigns[bulk.pos])
                       IN /\ StartChoiceMatters(campaign, ok_c, ok_a, eligible, fetch_ok)
                          /\ runs' = [runs EXCEPT !["r1"] =
                                         StartedRun(runs["r1"], "api", campaign, ok_c, ok_a,
                                                    eligible, fetch_ok)]
               /\ bulk' = [bulk EXCEPT !.pos = @ + 1, !.written = written]
    /\ UNCHANGED <<engineVars, encoder, workerVars, scoringVars, matchCall, rows,
                   campaignTotal, notifications, lastWrite>>

\* the for loop: after a campaign that did not raise, the next campaign's
\* _process_campaign_matches begins, or the loop ends and the call returns
BulkCampaign ==
    /\ bulk.status = "running"
    /\ runs["r1"].pc \in {"idle", "done"}
    /\ runs["r1"].result # "raised"
    /\ LET written == bulk.written \o WrittenBy(runs["r1"])
       IN IF bulk.pos > Len(bulk.campaigns)
          THEN /\ bulk' = [bulk EXCEPT !.status = "returned", !.written = written]
               /\ UNCHANGED runs
          ELSE /\ \E ok_c \in BOOLEAN, ok_a \in BOOLEAN, eligible \in {<<>>, StoreAthletes} :
                    \E fetch_ok \in [1..Len(eligible) -> BOOLEAN] :
                       LET campaign == CampaignById(bulk.campaigns[bulk.pos])
                       IN /\ StartChoiceMatters(campaign, ok_c, ok_a, eligible, fetch_ok)
                          /\ runs' = [runs EXCEPT !["r1"] =
                                         StartedRun(runs["r1"], "api", campaign, ok_c, ok_a,
                                                    eligible, fetch_ok)]
               /\ bulk' = [bulk EXCEPT !.pos = @ + 1, !.written = written]
    /\ UNCHANGED <<engineVars, encoder, workerVars, scoringVars, matchCall, rows,
                   campaignTotal, notifications, lastWrite>>

\* _process_campaign_matches has raised: the except clause of
\* run_bulk_matching_analysis logs and re-raises
BulkExcept ==
    /\ bulk.status = "running"
    /\ runs["r1"].pc = "done"
    /\ runs["r1"].result = "raised"
    /\ bulk' = [bulk EXCEPT !.status = "raised",
                            !.written = @ \o WrittenBy(runs["r1"])]
    /\ UNCHANGED <<engineVars, encoder, workerVars, scoringVars, matchCall, rows,
                   campaignTotal, notifications, runs, lastWrite>>

BulkCampaignsInit ==
    /\ EngineStart
    /\ encoder \in 0..MaxEncoder
    /\ MatchIdle
    /\ rows = <<>>
    /\ campaignTotal = <<>>
    /\ notifications = <<>>
    /\ runs = [r \in Runs |-> IdleRun]
    /\ lastWrite = <<>>
    /\ bulk = IdleBulk
    /\ WorkerIdle
    /\ ScoringIdle

BulkCampaignsNext ==
    \/ BulkBegin
    \/ BulkCampaign
    \/ QueryExisting("r1")
    \/ WriteMatch("r1")
    \/ FinishApi("r1")
    \/ BulkExcept

SpecBulkCampaigns == BulkCampaignsInit /\ [][BulkCampaignsNext]_vars

-----------------------------------------------------------------------------
(* Properties of campaign processing (SpecCampaign, SpecCampaignSeq)       *)

\* the rows of the collection for a (campaign, athlete) pair
RowsOfKey(store, campaign_id, athlete_id) ==
    {n \in 1..Len(store) : /\ store[n].campaign = campaign_id
                           /\ store[n].athlete = athlete_id}

\* at most one row per (campaign, athlete) pair
OneRowPerKey(store) ==
    \A n \in 1..Len(store) :
        RowsOfKey(store, store[n].campaign, store[n].athlete) = {n}

\* C4: with the runs one after the other, every step leaves at most one
\* row per (campaign, athlete) pair; a row is created only when the
\* collection holds none for its pair, and otherwise the row of the pair is
\* updated in place.
C4_UpsertByKey ==
    [][/\ OneRowPerKey(rows')
       /\ Len(rows') >= Len(rows)
       /\ \A n \in 1..Len(rows) : /\ rows'[n].campaign = rows[n].campaign
                                  /\ rows'[n].athlete = rows[n].athlete
       /\ Len(rows') > Len(rows) =>
             /\ Len(rows') = Len(rows) + 1
             /\ RowsOfKey(rows, rows'[Len(rows')].campaign, rows'[Len(rows')].athlete) = {}
      ]_vars

\* a task run has stored its match into the one row an earlier run of the
\* API process created (only that run writes total_followers)
C4_Witness ==
    /\ Len(rows) = 1
    /\ "total_followers" \in DOMAIN rows[1]
    /\ runs["r1"].kind = "worker"
    /\ runs["r1"].pc = "done"
    /\ runs["r1"].stored_count = 1
    /\ runs["r1"].start = 2

\* C5: whatever the interleaving of the store calls of two runs, a pair
\* that has been written has exactly one row, and the row holds the data
\* of the latest write.
C5_LastWriteWins ==
    \A key \in DOMAIN lastWrite :
        \E n \in 1..Len(rows) :
            /\ RowsOfKey(rows, key[1], key[2]) = {n}
            /\ \A k \in DOMAIN lastWrite[key] : rows[n][k] = lastWrite[key][k]

\* the brand of the run's campaign has an owning user
HasOwner(run) ==
    /\ "brand" \in DOMAIN CampaignById(run.campaign_id)
    /\ CampaignById(run.campaign_id).brand.user # ""

\* the notifications the current run of r has queued
NotificationsOf(r) ==
    {k \in 1..Len(notifications) :
        /\ notifications[k].run = r
        /\ notifications[k].start = runs[r].start
        /\ notifications[k].type = "new_matches_available"}

\* C6: a run that has ended without an error, has stored at least one match
\* and whose brand has an owning user has queued exactly one
\* 'new_matches_available' notification, to that user.
C6_NotificationQueued ==
    \A r \in Runs :
        (/\ runs[r].pc = "done"
         /\ runs[r].result \in {"returned", "completed"}
         /\ runs[r].stored_count > 0
         /\ HasOwner(runs[r]))
        => /\ Cardinality(NotificationsOf(r)) = 1
           /\ \A k \in NotificationsOf(r) :
                  notifications[k].user = CampaignById(runs[r].campaign_id).brand.user

\* the highest overall_score of a non-empty list of matches
TopScore(matches) ==
    CHOOSE s \in {matches[i].overall_score : i \in 1..Len(matches)} :
        \A i \in 1..Len(matches) : s >= matches[i].overall_score

\* C7: the notification of a run that has ended carries the number of rows
\* the run stored and the highest score of its matches, and a run that
\* stored no row has queued none.
C7_NotificationPayload ==
    \A r \in Runs :
        runs[r].pc = "done" =>
            \A k \in NotificationsOf(r) :
                /\ runs[r].stored_count > 0
                /\ notifications[k].matches_count = runs[r].stored_count
                /\ notifications[k].top_score = TopScore(runs[r].matches)

\* the rows of the collection that belong to a campaign
RowsOfCampaign(campaign_id) == {n \in 1..Len(rows) : rows[n].campaign = campaign_id}

\* the run of r has ended on a campaign whose record came without a brand
EndedWithoutBrand(r) ==
    /\ runs[r].pc = "done"
    /\ GetCampaign \in {runs[r].calls[i] : i \in 1..Len(runs[r].calls)}
    /\ "brand" \notin DOMAIN CampaignById(runs[r].campaign_id)

\* C24: on a campaign record without an expanded brand,
\* _process_campaign_matches returns without raising after the campaign
\* get_one alone (no athlete query, no match row, no campaign update, no
\* notification), and the calculate_ai_matches task returns 'failed' and
\* writes no match row.
C24_NoBrandNoStoreCalls ==
    \A r \in Runs :
        EndedWithoutBrand(r) =>
            /\ runs[r].stored_count = 0
            /\ RowsOfCampaign(runs[r].campaign_id) = {}
            /\ runs[r].kind = "api" =>
                  /\ runs[r].result = "returned"
                  /\ runs[r].calls = <<GetCampaign>>
                  /\ runs[r].campaign_id \notin DOMAIN campaignTotal
                  /\ NotificationsOf(r) = {}
            /\ runs[r].kind = "worker" => runs[r].result = "failed"

\* both kinds of run have ended on the campaign without a brand
C24_Witness ==
    /\ EndedWithoutBrand("r1") /\ runs["r1"].kind = "api"
    /\ runs["r1"].result = "returned"
    /\ EndedWithoutBrand("r2") /\ runs["r2"].kind = "worker"
    /\ runs["r2"].result = "failed"

\* the athletes of the first n matches
TopAthletes(matches, n) == {matches[i].athlete_id : i \in 1..Min(n, Len(matches))}

NotReached == {bulk.campaigns[k] : k \in Max(bulk.pos, 1)..Len(bulk.campaigns)}

\* nothing in the store comes from the campaign
Unprocessed(campaign_id) ==
    /\ RowsOfCampaign(campaign_id) = {}
    /\ campaign_id \notin DOMAIN campaignTotal
    /\ \A k \in 1..Len(notifications) : notifications[k].campaign_id # campaign_id

\* the campaign in progress is the one before pos, the campaigns from pos on
\* are untouched, every row written so far is in the store, and the call
\* returns only after the whole list
BulkInOrder ==
    bulk # <<>> =>
        /\ (bulk.status = "running" /\ runs["r1"].pc # "idle") =>
              runs["r1"].campaign_id = bulk.campaigns[bulk.pos - 1]
        /\ \A c \in NotReached : Unprocessed(c)
        /\ \A w \in Range(bulk.written) : RowsOfKey(rows, w[1], w[2]) # {}
        /\ bulk.status = "returned" =>
              bulk.pos = Len(bulk.campaigns) + 1 /\ runs["r1"].result # "raised"

\* once a campaign has raised, the only step of the call is to raise
RaiseEndsBulk ==
    (bulk # <<>> /\ bulk.status = "running" /\ runs["r1"].result = "raised") =>
        /\ runs' = runs /\ rows' = rows
        /\ bulk'.pos = bulk.pos
        /\ bulk'.status \in {"running", "raised"}

\* C29: run_bulk_matching_analysis processes the active campaigns one at a
\* time in list order; when processing one raises, the error propagates out
\* of the call, the campaigns after it are not processed, and the rows
\* written before stay in the store.
C29_BulkStopsAtFirstError ==
    []BulkInOrder /\ [][RaiseEndsBulk]_vars

\* the first campaign was processed and has rows, the second raised, the
\* third was never begun
C29_Witness ==
    /\ bulk.status = "raised"
    /\ Len(bulk.campaigns) = 3
    /\ bulk.pos = 3
    /\ runs["r1"].campaign_id = bulk.campaigns[2]
    /\ RowsOfCampaign(bulk.campaigns[1]) # {}
    /\ bulk.campaigns[1] \in DOMAIN campaignTotal

-----------------------------------------------------------------------------
(* api-server worker (worker/tasks.py): the Celery task messages.  A task  *)
(* message is executed by one call of the task function; self.retry()      *)
(* publishes the message again with retries + 1 and the countdown as its   *)
(* delay.  The store effects of calculate_ai_matches are those of the      *)
(* worker run of the campaign model; here its body either completes or     *)
(* raises.                                                                 *)

MaxTasks == 2

\* @celery.task(bind=True, max_retries=3)
max_retries == 3

TaskNames == {"sync_social_media_metrics", "calculate_ai_matches",
              "send_notification", "process_deal_update"}

\* the deals of the store as get_one(deal_id, expand="athlete,brand,agent")
\* gives them: expand holds the related records, the "agent" relation is a
\* user id or empty
DealCatalogue ==
    <<[id |-> "d1", agent |-> "u3",
       expand |-> [athlete |-> [user |-> "u1"], brand |-> [user |-> "u2"]]],
      [id |-> "d2", agent |-> "", expand |-> <<>>]>>

\* the value None where a dict may stand
PyNone == [none |-> TRUE]

\* the users of the store: with stored email preferences, with the field
\* unset, and a record that has no such field
UserCatalogue ==
    <<[id |-> "u1",
       email_preferences |-> [deal_status_update |-> TRUE, profile_viewed |-> FALSE]],
      [id |-> "u2", email_preferences |-> PyNone],
      [id |-> "u3"]>>

\* the arguments a client passes to a task
TaskArgs(name) ==
    IF name = "process_deal_update"
    THEN {[deal_id |-> DealCatalogue[d].id] : d \in 1..Len(DealCatalogue)}
    ELSE IF name = "send_notification"
    THEN {[user_id |-> UserCatalogue[u].id, notification_type |-> t] :
             u \in 1..Len(UserCatalogue), t \in {"deal_status_update", "profile_viewed"}}
    ELSE IF name = "calculate_ai_matches" THEN {[campaign_id |-> "c1"]}
    ELSE {[athlete_id |-> "a1"]}

\* task.delay(...): a message with request.retries = 0
NewTask(name, args) ==
    [name |-> name, args |-> args, state |-> "queued", retries |-> 0,
     executions |-> 0, failures |-> 0, countdowns |-> <<>>,
     result |-> [status |-> "none"]]

DealById(deal_id) ==
    DealCatalogue[CHOOSE d \in 1..Len(DealCatalogue) : DealCatalogue[d].id = deal_id]

\* 2 ** n
RECURSIVE Pow2(_)
Pow2(n) == IF n = 0 THEN 1 ELSE 2 * Pow2(n - 1)

\* a backoff that grows by 60 seconds per retry instead of doubling
CountdownLinear(retries) == 60 * (retries + 1)

\* countdown = 60 * (2 ** self.request.retries)
Countdown(retries) == 60 * Pow2(retries)

\* sync_social_media_metrics: the message after one execution
sync_social_media_metrics(task, ok) ==
    LET ran == [task EXCEPT !.executions = @ + 1,
                            !.failures = IF ok THEN @ ELSE @ + 1]
    IN IF ok
       THEN [ran EXCEPT !.state = "done", !.result = [status |-> "success"]]
       ELSE IF task.retries < max_retries
       THEN [ran EXCEPT !.state = "retry",
                        !.countdowns = Append(@, Countdown(task.retries)),
                        !.retries = @ + 1]
       ELSE [ran EXCEPT !.state = "done",
                        !.result = [status |-> "failed", error |-> "exc"]]

\* a task declared with a plain @celery.task whose body is one try block
\* returning {"status": "failed", "error": str(e)} from its except clause
PlainTask(task, ok, done_status) ==
    LET ran == [task EXCEPT !.executions = @ + 1,
                            !.failures = IF ok THEN @ ELSE @ + 1]
    IN IF ok
       THEN [ran EXCEPT !.state = "done", !.result = [status |-> done_status]]
       ELSE [ran EXCEPT !.state = "done",
                        !.result = [status |-> "failed", error |-> "exc"]]

calculate_ai_matches(task, ok) == PlainTask(task, ok, "completed")

\* collection("users").get_one(user_id)
UserById(user_id) ==
    UserCatalogue[CHOOSE u \in 1..Len(UserCatalogue) : UserCatalogue[u].id = user_id]

important_notifications ==
    {"deal_status_update", "payment_received", "payment_failed", "deal_expired",
     "urgent_update"}

\* _should_send_email: email_prefs = user.email_preferences or {}
_should_send_email(notification_type, user) ==
    IF "email_preferences" \in DOMAIN user
    THEN LET email_prefs == IF user.email_preferences = PyNone THEN <<>>
                            ELSE user.email_preferences
         IN Get(email_prefs, notification_type, TRUE)
    ELSE notification_type \in important_notifications

\* send_notification: email says whether _send_email_notification was called
send_notification(task, ok) ==
    LET ran == PlainTask(task, ok, "sent")
    IN IF ok
       THEN [ran EXCEPT !.result =
                [status |-> "sent",
                 email |-> _should_send_email(task.args.notification_type,
                                              UserById(task.args.user_id))]]
       ELSE ran

\* the parties process_deal_update notifies, in order: deal.expand is a
\* dict, so hasattr(deal.expand, 'athlete') and hasattr(deal.expand,
\* 'brand') ask for attributes of a dict
DealNotifications(deal) ==
    (IF DictHasAttr("athlete") /\ "athlete" \in DOMAIN deal.expand
     THEN <<[role |-> "athlete", user_id |-> deal.expand.athlete.user]>> ELSE <<>>)
    \o (IF DictHasAttr("brand") /\ "brand" \in DOMAIN deal.expand
        THEN <<[role |-> "brand", user_id |-> deal.expand.brand.user]>> ELSE <<>>)
    \o (IF deal.agent # "" THEN <<[role |-> "agent", user_id |-> deal.agent]>> ELSE <<>>)

\* process_deal_update: the result lists the parties notified
process_deal_update(task, ok) ==
    LET ran == PlainTask(task, ok, "processed")
    IN IF ok
       THEN [ran EXCEPT !.result =
                [status |-> "processed",
                 notifications |-> DealNotifications(DealById(task.args.deal_id))]]
       ELSE ran

\* the messages an execution of the task queues with delay()
Queued(task, ok) ==
    IF ok /\ task.name = "process_deal_update"
    THEN LET parties == DealNotifications(DealById(task.args.deal_id))
         IN [i \in 1..Len(parties) |->
                NewTask("send_notification",
                        [user_id |-> parties[i].user_id,
                         notification_type |-> "deal_status_update",
                         deal_id |-> task.args.deal_id])]
    ELSE <<>>

RunTask(task, ok) ==
    IF task.name = "sync_social_media_metrics" THEN sync_social_media_metrics(task, ok)
    ELSE IF task.name = "calculate_ai_matches" THEN calculate_ai_matches(task, ok)
    ELSE IF task.name = "send_notification" THEN send_notification(task, ok)
    ELSE process_deal_update(task, ok)

\* a client queues a task
Enqueue ==
    /\ Len(tasks) < MaxTasks
    /\ \E name \in TaskNames : \E args \in TaskArgs(name) :
          tasks' = Append(tasks, NewTask(name, args))
    /\ UNCHANGED <<engineVars, encoder, matchCall, campaignVars, scoringVars>>

\* a worker process executes the message: ok is whether the body completes
Execute(i) ==
    /\ i \in 1..Len(tasks)
    /\ tasks[i].state = "queued"
    /\ \E ok \in BOOLEAN :
          tasks' = [tasks EXCEPT ![i] = RunTask(tasks[i], ok)] \o Queued(tasks[i], ok)
    /\ UNCHANGED <<engineVars, encoder, matchCall, campaignVars, scoringVars>>

\* the countdown of a retried message has passed
Redeliver(i) ==
    /\ i \in 1..Len(tasks)
    /\ tasks[i].state = "retry"
    /\ tasks' = [tasks EXCEPT ![i].state = "queued"]
    /\ UNCHANGED <<engineVars, encoder, matchCall, campaignVars, scoringVars>>

WorkerInit ==
    /\ EngineStart
    /\ encoder = 0
    /\ MatchIdle
    /\ CampaignIdle
    /\ WorkerIdle
    /\ ScoringIdle

WorkerNext ==
    \/ Enqueue
    \/ \E i \in 1..(2 * MaxTasks) : Execute(i)
    \/ \E i \in 1..(2 * MaxTasks) : Redeliver(i)

\* a running worker executes every queued message and every retried message
\* is delivered again once its countdown has passed
WorkerFairness ==
    \A i \in 1..(2 * MaxTasks) : WF_vars(Execute(i)) /\ WF_vars(Redeliver(i))

SpecWorker == WorkerInit /\ [][WorkerNext]_vars /\ WorkerFairness

-----------------------------------------------------------------------------
(* The two factor calculators and the two aggregations applied to profiles *)
(* assembled from optional fields.  A profile is the dict holding the      *)
(* fields chosen; the empty dict is <<>>.                                  *)

\* {**d1, **d2}
Merge(d1, d2) ==
    [k \in DOMAIN d1 \cup DOMAIN d2 |-> IF k \in DOMAIN d2 THEN d2[k] ELSE d1[k]]

AthleteNameOptions ==
    {<<>>, [first_name |-> S_Name, last_name |-> S_Name, school |-> S_School]}
AthleteSportOptions == {<<>>, [sport |-> S_basketball], [sport |-> S_golf]}
AthleteLocationOptions == {<<>>, [location |-> <<>>], [location |-> S_AustinTX]}
AthleteBioOptions == {<<>>, [bio |-> S_BioClean]}
AthleteVerifiedOptions == {<<>>, [verified |-> FALSE]}

BrandSportOptions ==
    {<<>>, [industry |-> S_technology], [preferred_sports |-> <<S_basketball>>],
     [preferred_sports |-> <<S_basketball>>, industry |-> S_technology]}
BrandLocationOptions ==
    {<<>>, [location |-> S_AustinTX], [location |-> S_HoustonTX],
     [location |-> S_MiamiFL]}

\* audience percentages as a platform reports them per age group
AudiencePercentages == [g18_24 |-> 80, g25_34 |-> 70]

\* a brand with a budget and targeting: age_groups is read by the ai-engine
\* calculator, age_group and income_level by the api-server calculator
BrandTargetOptions ==
    {<<>>,
     [budget_min |-> 1, budget_max |-> 2,
      target_demographics |->
         [age_groups |-> AudiencePercentages, age_group |-> S_g45_plus,
          income_level |-> S_low]],
     [budget_min |-> 1, budget_max |-> 2,
      target_demographics |-> [age_groups |-> [g35_44 |-> 100]]],
     [budget_min |-> 1000, budget_max |-> 8000]}

MetricsOptions ==
    {<<>>,
     <<[platform |-> "instagram", followers |-> 600, engagement_rate |-> 8,
        audience_demographics |-> [age_groups |-> AudiencePercentages]]>>}

\* cosine similarities, in hundredths
SimilarityOptions == {-100, 0, 100}

\* both calculators and both aggregations on one input
Calculate(in) ==
    LET engine == CM_calculate_compatibility_factors(in.athlete, in.brand, in.metrics)
        api    == API_calculate_compatibility_factors(in.athlete, in.brand, in.metrics)
    IN [engine |-> engine, api |-> api,
        engine_score |-> EngineOverallScore(engine, in.similarity),
        api_score    |-> ApiOverallScore(api, in.similarity)]

FactorsInit ==
    /\ EngineStart
    /\ encoder = 0
    /\ MatchIdle
    /\ CampaignIdle
    /\ WorkerIdle
    /\ agg = <<>>
    /\ \E n \in AthleteNameOptions, sp \in AthleteSportOptions,
          l \in AthleteLocationOptions, b \in AthleteBioOptions,
          v \in AthleteVerifiedOptions, bs \in BrandSportOptions,
          bl \in BrandLocationOptions, bt \in BrandTargetOptions,
          m \in MetricsOptions, sim \in SimilarityOptions :
          fIn = [athlete |-> Merge(Merge(Merge(Merge(n, sp), l), b), v),
                 brand |-> Merge(Merge(bs, bl), bt),
                 metrics |-> m, similarity |-> sim, last |-> "init"]
    /\ fOut = Calculate(fIn)

\* the same profile with a red-flag keyword added to its bio, scored again
AddRedFlag ==
    /\ "bio" \in DOMAIN fIn.athlete
    /\ fIn.athlete.bio = S_BioClean
    /\ fIn' = [fIn EXCEPT !.athlete.bio = @ \o <<" ">> \o S_arrest,
                          !.last = "red_flag"]
    /\ fOut' = Calculate(fIn')
    /\ UNCHANGED <<engineVars, encoder, matchCall, campaignVars, workerVars, agg>>

\* the same profile with verified = True, scored again
Verify ==
    /\ ~Get(fIn.athlete, "verified", FALSE)
    /\ fIn' = [fIn EXCEPT !.athlete = Merge(@, [verified |-> TRUE]),
                          !.last = "verified"]
    /\ fOut' = Calculate(fIn')
    /\ UNCHANGED <<engineVars, encoder, matchCall, campaignVars, workerVars, agg>>

FactorsNext == AddRedFlag \/ Verify

SpecFactors == FactorsInit /\ [][FactorsNext]_vars

-----------------------------------------------------------------------------
(* The aggregation on its own: a weight table applied to factor values     *)
(* and a similarity, then one input raised and the score computed again.   *)

\* factor values (hundredths of a point) and similarities (hundredths)
FactorLevels == {0, Points(40), Points(50), Points(100)}

\* the two aggregations, by the service that holds them
Aggregate(table, factors, similarity) ==
    IF table = "engine" THEN EngineOverallScore(factors, similarity)
    ELSE ApiOverallScore(factors, similarity)

FactorNames(table) ==
    (IF table = "engine" THEN DOMAIN engine_weights ELSE DOMAIN api_weights)
        \ {"semantic_similarity"}

\* the aggregation applied: score in 1/10000 point, rounded as
\* round(overall_score, 1) in tenths of a point, and the recommendation made
\* from the score and the factors
Aggregation(table, factors, similarity, last) ==
    LET score == Aggregate(table, factors, similarity)
    IN [table |-> table, factors |-> factors, similarity |-> similarity,
        score |-> score, rounded |-> RoundHalfEven(score, 1000),
        recommendation |->
            IF table = "engine" THEN CM_generate_recommendation(score, factors)
            ELSE API_generate_recommendation(score, factors),
        last |-> last]

AggregateInit ==
    /\ EngineStart
    /\ encoder = 0
    /\ MatchIdle
    /\ CampaignIdle
    /\ WorkerIdle
    /\ fIn = <<>>
    /\ fOut = <<>>
    /\ \E table \in {"engine", "api"} :
       \E factors \in [FactorNames(table) -> FactorLevels] :
       \E similarity \in SimilarityOptions :
          agg = Aggregation(table, factors, similarity, "init")

\* one factor raised, all other inputs kept
RaiseFactor ==
    /\ \E k \in FactorNames(agg.table) : \E v \in FactorLevels :
          /\ v > agg.factors[k]
          /\ agg' = Aggregation(agg.table, [agg.factors EXCEPT ![k] = v],
                                agg.similarity, k)
    /\ UNCHANGED <<engineVars, encoder, matchCall, campaignVars, workerVars, fIn, fOut>>

\* the semantic similarity raised, all factors kept
RaiseSimilarity ==
    /\ \E v \in SimilarityOptions :
          /\ v > agg.similarity
          /\ agg' = Aggregation(agg.table, agg.factors, v, "semantic_similarity")
    /\ UNCHANGED <<engineVars, encoder, matchCall, campaignVars, workerVars, fIn, fOut>>

AggregateNext == RaiseFactor \/ RaiseSimilarity

SpecAggregate == AggregateInit /\ [][AggregateNext]_vars

-----------------------------------------------------------------------------
(* Claims about the worker tasks *)

\* the positions a task message can have
TaskSlots == 1..(2 * MaxTasks)

IsTask(i, names) == i <= Len(tasks) /\ tasks[i].name \in names

\* the countdowns of the retries, in seconds
Backoff == <<60, 120, 240>>

SyncRetryBounds(t) ==
    /\ t.retries <= 3
    /\ t.executions <= 4
    /\ t.executions = t.retries + (IF t.state = "done" THEN 1 ELSE 0)
    /\ Len(t.countdowns) = t.retries
    /\ \A n \in 1..Len(t.countdowns) : t.countdowns[n] = Backoff[n]
    /\ (t.state = "done" /\ t.failures = t.executions) =>
          /\ t.executions = 4
          /\ t.countdowns = Backoff
          /\ t.result = [status |-> "failed", error |-> "exc"]

\* C11: a sync_social_media_metrics task is retried with the countdowns 60,
\* 120, 240 seconds, never more than 3 times, is executed at most 4 times;
\* when its body failed on every attempt it ends after the 4th execution
\* with status 'failed' and the error text; and every such task terminates.
C11_SyncRetriesWithBackoff ==
    /\ [](\A i \in TaskSlots :
            IsTask(i, {"sync_social_media_metrics"}) => SyncRetryBounds(tasks[i]))
    /\ \A i \in TaskSlots :
          IsTask(i, {"sync_social_media_metrics"})
             ~> (IsTask(i, {"sync_social_media_metrics"}) /\ tasks[i].state = "done")

\* a sync task that failed on each of its 4 executions and has ended
C11_Witness ==
    \E i \in TaskSlots :
        /\ IsTask(i, {"sync_social_media_metrics"})
        /\ tasks[i].state = "done"
        /\ tasks[i].failures = 4
        /\ tasks[i].executions = 4
        /\ tasks[i].result.status = "failed"

\* C12: a calculate_ai_matches, send_notification or process_deal_update
\* task is reported as failed only after its body was re-executed up to the
\* retry cap (max_retries + 1 executions, with backoff between them).
C12_PlainTasksRetried ==
    \A i \in TaskSlots :
        (/\ IsTask(i, {"calculate_ai_matches", "send_notification", "process_deal_update"})
         /\ tasks[i].state = "done"
         /\ tasks[i].result.status = "failed")
        => (tasks[i].executions = max_retries + 1 /\ tasks[i].countdowns = Backoff)

\* the parties present on a deal: the user of the expanded athlete, the
\* user of the expanded brand and the assigned agent
PartiesPresent(deal) ==
    {[role |-> r, user_id |-> deal.expand[r].user] : r \in DOMAIN deal.expand}
        \cup (IF deal.agent # "" THEN {[role |-> "agent", user_id |-> deal.agent]} ELSE {})

\* the 'deal_status_update' messages queued for a user about a deal
DealMessages(deal_id, user_id) ==
    {i \in 1..Len(tasks) :
        /\ tasks[i].name = "send_notification"
        /\ tasks[i].args.notification_type = "deal_status_update"
        /\ Get(tasks[i].args, "deal_id", "") = deal_id
        /\ tasks[i].args.user_id = user_id}

\* the executions of process_deal_update on a deal that have completed
DealUpdatesProcessed(deal_id) ==
    {i \in 1..Len(tasks) :
        /\ tasks[i].name = "process_deal_update"
        /\ tasks[i].args.deal_id = deal_id
        /\ tasks[i].result.status = "processed"}

\* C25: a completed process_deal_update has queued exactly one
\* 'deal_status_update' notification for each party present on the deal
\* (athlete's user, brand's user, agent) and lists each of them in its
\* result: three with all present, none with none.
C25_DealPartiesNotified ==
    \A d \in 1..Len(DealCatalogue) :
        LET deal == DealCatalogue[d]
        IN \A i \in DealUpdatesProcessed(deal.id) :
              LET listed == tasks[i].result.notifications
              IN /\ {listed[k] : k \in 1..Len(listed)} = PartiesPresent(deal)
                 /\ Len(listed) = Cardinality(PartiesPresent(deal))
                 /\ \A party \in PartiesPresent(deal) :
                        Cardinality(DealMessages(deal.id, party.user_id))
                            = Cardinality(DealUpdatesProcessed(deal.id))

\* C26: for a user whose email_preferences is unset, an email is sent exactly
\* for the important notification types; for a user with a stored preference
\* for the type, the email follows that preference.
C26_EmailPreferenceDefaults ==
    \A i \in 1..Len(tasks) :
        (tasks[i].name = "send_notification" /\ tasks[i].result.status = "sent") =>
            LET user == UserById(tasks[i].args.user_id)
                type == tasks[i].args.notification_type
                prefs == Get(user, "email_preferences", PyNone)
            IN IF prefs = PyNone
               THEN tasks[i].result.email = (type \in important_notifications)
               ELSE type \in DOMAIN prefs => tasks[i].result.email = prefs[type]

-----------------------------------------------------------------------------
(* Claims about the factor calculators and the aggregations *)

InRange(factors) == \A k \in DOMAIN factors : factors[k] \in 0..Points(100)

\* C13: every factor of both calculators lies in [0, 100], for every input.
C13_FactorsInRange ==
    fOut # <<>> => InRange(fOut.engine) /\ InRange(fOut.api)

\* C14: the overall score of both aggregations lies in [0, 100] for the factor
\* values the calculators produce and every similarity in [-1, 1].
C14_OverallScoreInRange ==
    fOut # <<>> =>
        /\ fOut.engine_score \in 0..(100 * Points(100))
        /\ fOut.api_score \in 0..(100 * Points(100))

AthleteSport == Get(fIn.athlete, "sport", <<>>)
PreferredSports == Get(fIn.brand, "preferred_sports", <<>>)

\* C16: sport_alignment is 100 in both calculators whenever the athlete's
\* sport is in the brand's preferred-sports list or that list is empty.
C16_PreferredSportIsFullAlignment ==
    (fOut # <<>> /\ (PreferredSports = <<>>
                     \/ \E i \in 1..Len(PreferredSports) : PreferredSports[i] = AthleteSport))
    => /\ fOut.engine.sport_alignment = Points(100)
       /\ fOut.api.sport_alignment = Points(100)

AthleteLocation == Get(fIn.athlete, "location", <<>>)
BrandLocation == Get(fIn.brand, "location", <<>>)

BothLocations(score) ==
    fOut.engine.location_proximity = score /\ fOut.api.location_proximity = score

\* C17: in both calculators 'Austin, TX' against 'Austin, TX' scores 100,
\* against 'Houston, TX' (same last comma-separated segment) 80, and against
\* 'Miami, FL' (nothing shared) 30.
C17_LocationTiers ==
    (fOut # <<>> /\ AthleteLocation = S_AustinTX) =>
        /\ BrandLocation = S_AustinTX => BothLocations(Points(100))
        /\ BrandLocation = S_HoustonTX => BothLocations(Points(80))
        /\ BrandLocation = S_MiamiFL => BothLocations(Points(30))

\* C18: a location missing or empty on either side gives location_proximity
\* 50 in both calculators.
C18_MissingLocationDefault ==
    (fOut # <<>> /\ (AthleteLocation = <<>> \/ BrandLocation = <<>>))
    => BothLocations(Points(50))

\* C19: adding the red-flag keyword 'arrest' to a clean bio lowers the
\* api-server brand-safety score by exactly 25 unless the floor 20 is hit, and
\* the score of both calculators stays within [20, 100].
C19_RedFlagPenalty ==
    [][AddRedFlag =>
         /\ \/ fOut'.api.brand_safety = fOut.api.brand_safety - Points(25)
            \/ fOut'.api.brand_safety = Points(20)
         /\ fOut'.api.brand_safety \in Points(20)..Points(100)
         /\ fOut'.engine.brand_safety \in Points(20)..Points(100)]_vars

\* C20: the api-server brand-safety score with verified = true is strictly
\* greater than that of the otherwise identical profile with verified = false.
C20_VerifiedScoresHigher ==
    [][Verify => fOut'.api.brand_safety > fOut.api.brand_safety]_vars

\* C21: with an empty metrics list, engagement_quality is a low default
\* between 20 and 30 inclusive in both calculators.
C21_NoMetricsLowDefault ==
    (fOut # <<>> /\ fIn.metrics = <<>>) =>
        /\ fOut.engine.engagement_quality \in Points(20)..Points(30)
        /\ fOut.api.engagement_quality \in Points(20)..Points(30)

\* the band of a rate num/den against a budget: 100 up to budget_max, 70 up
\* to 1.2 times it, 40 up to 1.5 times it, 15 beyond
BudgetBand(num, den, budget_max) ==
    IF num <= budget_max * den THEN Points(100)
    ELSE IF 5 * num <= 6 * budget_max * den THEN Points(70)
    ELSE IF 2 * num <= 3 * budget_max * den THEN Points(40)
    ELSE Points(15)

BudgetMin == Get(fIn.brand, "budget_min", 0)
BudgetMax == Get(fIn.brand, "budget_max", 0)

\* the rate each calculator estimates for the metrics, as a fraction
EngineRateNum ==
    TotalFollowers(fIn.metrics) * (1000 * Len(fIn.metrics) + TotalEngagement(fIn.metrics))
EngineRateDen == 200 * Len(fIn.metrics)
ApiRateNum ==
    EstimatedRateTimes10(TotalFollowers(fIn.metrics),
                         fOut.api.engagement_quality \div 100)

\* C22: with a budget (budget_max > 0) and metrics, the budget factor of both
\* calculators is the band of the estimated rate r: 100 for
\* budget_min < r <= budget_max, 70 up to 1.2 budget_max, 40 up to
\* 1.5 budget_max, 15 beyond.
C22_BudgetBands ==
    (fOut # <<>> /\ fIn.metrics # <<>> /\ BudgetMax > 0) =>
        /\ EngineRateNum > BudgetMin * EngineRateDen =>
              fOut.engine.budget_compatibility =
                  BudgetBand(EngineRateNum, EngineRateDen, BudgetMax)
        /\ ApiRateNum > BudgetMin * 10 =>
              fOut.api.budget_fit = BudgetBand(ApiRateNum, 10, BudgetMax)

\* C23: for an overall score in the moderate band [55, 70) the recommendation
\* lists at most two factor names, and no factor it leaves out scores lower
\* than one it lists.
C23_RecommendationNamesWeakest ==
    (agg # <<>> /\ agg.score >= 100 * Points(55) /\ agg.score < 100 * Points(70)) =>
        LET names == agg.recommendation.names
            Listed == {names[i] : i \in 1..Len(names)}
        IN /\ Len(names) <= 2
           /\ \A l \in Listed : \A k \in DOMAIN agg.factors \ Listed :
                  agg.factors[k] >= agg.factors[l]

\* C15: raising one factor, or the similarity, while everything else stays
\* fixed never lowers the overall score, for both weight tables.
C15_AggregationMonotonic ==
    [][(RaiseFactor \/ RaiseSimilarity) =>
          /\ agg'.score >= agg.score
          /\ agg'.rounded >= agg.rounded]_vars

\* brand safety was raised under the api-server weights and the score rose
C15_Witness ==
    /\ agg # <<>>
    /\ agg.table = "api"
    /\ agg.last = "brand_safety"
    /\ agg.factors.brand_safety = Points(100)
    /\ agg.score > Aggregate("api", [agg.factors EXCEPT !.brand_safety = 0],
                             agg.similarity)

=============================================================================
